---- MODULE Spec2Model ----
(***************************************************************************)
(* ShadowGate: decision engine, circuit breaker, backend pool and gateway  *)
(* handler, modelled from the Go sources.                                  *)
(*                                                                         *)
(* Time is a natural number of seconds.  Durations keep their source       *)
(* values (30 * time.Second is 30).                                        *)
(***************************************************************************)
EXTENDS Integers, Sequences, FiniteSets, TLC

VARIABLES
    now,          \* wall clock (time.Now()), seconds
    allowRules,   \* Engine.allowRules (*rules.Group, possibly nil)
    denyRules,    \* Engine.denyRules  (*rules.Group, possibly nil)
    counters,     \* RateLimitRule.counters: client IP -> rateLimitCounter
    evalOut,      \* the last Engine.Evaluate call: its input and what it returned
    breaker,      \* one CircuitBreaker on its own (NewCircuitBreaker(cfg))
    allowOut,     \* what the last Allow() on breaker returned
    failRun,      \* RecordFailure calls on breaker while Closed since the last RecordSuccess or Reset
    succRun,      \* RecordSuccess calls on breaker in HalfOpen since it entered HalfOpen
    trustedProxies, \* Handler.trustedProxies, as the set of peer addresses inside the CIDRs
    backends,     \* Pool.backends: the backend names in insertion order
    healthy,      \* Backend.health.Healthy of every backend
    circuitBreaker, \* Backend.circuitBreaker of every backend
    currentIdx,   \* Pool.currentIdx
    proxying,     \* per backend, the requests admitted by Allow() whose proxy call has not returned
    retryOut,     \* the last Pool.ServeHTTPWithRetry call: its arguments and what it did
    picks,        \* the selections Pool.Next / Pool.NextHealthy returned, in cursor order
    weight,       \* Backend.Weight of every backend
    rule,         \* a RateLimitRule on its own: maxRequests and window
    rateMu,       \* RateLimitRule.mu: the task holding it ("" when free)
    rateTask,     \* per task, where it is in RateLimitRule.Evaluate and what it has read
    evals,        \* the RateLimitRule.Evaluate calls completed, in the order they held r.mu
    attributed,   \* the last Handler.extractClientIP calls: the request and the client IP returned
    proc,         \* main(): where it is, the health checkers and the admin API it started
    ln,           \* one HTTPListener: its server, its connections and the Stop call on it
    handling,     \* the requests Handler.ServeHTTP has taken up: where each is and what was done for it
    metrics,      \* Handler.metrics: whether there is one, and its counters
    checker,      \* one HealthChecker on the pool: its fields, its goroutines, the calls made on it
    sweeper,      \* RateLimitRule.stopped / stopChan, the cleanup goroutine, the Stop calls made
    requestLog,   \* Handler.logger: whether there is one, and the records it emitted
    lastOp        \* the operation performed by the last step and what it did

engineVars == <<allowRules, denyRules, counters, evalOut>>

breakerVars == <<breaker, allowOut, failRun, succRun>>

poolVars == <<backends, healthy, circuitBreaker, currentIdx>>

selVars == <<picks, weight>>

\* the state of the components the engine, breaker, gateway and retry
\* specifications leave alone
rateVars == <<rule, rateMu, rateTask, evals>>

ipVars == <<attributed>>

lifeVars == <<proc, ln>>

reqVars == <<handling, metrics, requestLog>>

\* the components specified on their own further down
lateVars == <<reqVars, checker, sweeper>>

otherVars == <<selVars, rateVars, ipVars, lifeVars, lateVars>>

vars == <<now, allowRules, denyRules, counters, evalOut,
          breaker, allowOut, failRun, succRun,
          trustedProxies, backends, healthy, circuitBreaker, currentIdx, proxying,
          retryOut, picks, weight, rule, rateMu, rateTask, evals, attributed, proc, ln,
          handling, metrics, requestLog, checker, sweeper, lastOp>>

-----------------------------------------------------------------------------
(* Bounds of the model *)

MaxTime == 30

\* largest value a rate-limit counter is driven to
MaxCount == 3

\* largest failure and success threshold a breaker is configured with
MaxThreshold == 3

\* largest consecutive-failure count a breaker is driven to
MaxFailures == 7

\* largest value the pool cursor is driven to
MaxCursor == 7

\* largest number of requests being proxied at the same time
MaxInflight == 2

-----------------------------------------------------------------------------
(* The record of the last step *)

\* a step that served no request
Op(name) ==
    [op |-> name, action |-> "", backend |-> "", status |-> 0, allowed |-> FALSE,
     contacted |-> FALSE, recorded |-> "", decoy |-> FALSE]

-----------------------------------------------------------------------------
(* Requests *)

ClientIPs == {"10.0.0.1", "8.8.8.8"}
Methods == {"GET", "POST"}

\* rules.Context: the fields of the request the modelled rules read
Context == [ClientIP : ClientIPs, Method : Methods]

-----------------------------------------------------------------------------
(* Rules and rule groups *)

NoReason == [msg |-> "", count |-> 0, max |-> 0]

Reason(m) == [msg |-> m, count |-> 0, max |-> 0]

\* rules.Result
Result(matched, reason, labels) ==
    [Matched |-> matched, Reason |-> reason, Labels |-> labels]

NilRule == [type |-> "nil", cidrs |-> {}, methods |-> {}, maxRequests |-> 0, window |-> 0]

IPRule(mode, cidrs) ==
    [type |-> "ip_" \o mode, cidrs |-> cidrs, methods |-> {}, maxRequests |-> 0, window |-> 0]

MethodRule(mode, methods) ==
    [type |-> "method_" \o mode, cidrs |-> {}, methods |-> methods, maxRequests |-> 0, window |-> 0]

\* a Stop that closes stopChan on every call
RateLimitStopUnguarded(sw) ==
    IF sw.stopClosed THEN [sw EXCEPT !.panicked = TRUE]
    ELSE [sw EXCEPT !.stopped = TRUE, !.stopClosed = TRUE]

\* RateLimitRule.Stop, under r.mu: the first call sets stopped and closes stopChan
RateLimitStop(sw) ==
    IF ~sw.stopped THEN [sw EXCEPT !.stopped = TRUE, !.stopClosed = TRUE] ELSE sw

\* NewRateLimitRule(maxRequests, window)
NewRateLimitRule(maxRequests, window) ==
    [type |-> "rate_limit", cidrs |-> {}, methods |-> {}, maxRequests |-> maxRequests, window |-> window]

\* rateLimitCounter; a client without an entry in the map has exists = FALSE
NoCounter == [exists |-> FALSE, count |-> 0, windowEnd |-> 0]

EmptyCounters == [ip \in ClientIPs |-> NoCounter]

\* r.mu.Lock() that never waits
LockFreeAlways(mu) == TRUE

\* r.mu.Lock() can proceed: nobody holds the mutex
LockFree(mu) == mu = ""

\* RateLimitRule.Evaluate that refuses the request that reaches maxRequests
RateLimitEvaluateOffByOne(r, ctx, cs, t) ==
    LET counter == cs[ctx.ClientIP] IN
    IF ~counter.exists \/ t > counter.windowEnd
    THEN [res |-> Result(TRUE, [msg |-> "rate limit", count |-> 1, max |-> r.maxRequests],
                         <<"rate-ok">>),
          cs  |-> [cs EXCEPT ![ctx.ClientIP] =
                      [exists |-> TRUE, count |-> 1, windowEnd |-> t + r.window]]]
    ELSE LET c == counter.count + 1
             cs2 == [cs EXCEPT ![ctx.ClientIP].count = c] IN
         IF c >= r.maxRequests
         THEN [res |-> Result(FALSE, [msg |-> "rate limit exceeded", count |-> c,
                                      max |-> r.maxRequests], <<"rate-exceeded">>),
               cs |-> cs2]
         ELSE [res |-> Result(TRUE, [msg |-> "rate limit", count |-> c, max |-> r.maxRequests],
                              <<"rate-ok">>),
               cs |-> cs2]

\* RateLimitRule.Evaluate that treats a counter as expired from windowEnd on
RateLimitEvaluateExpiresAtEnd(r, ctx, cs, t) ==
    LET counter == cs[ctx.ClientIP] IN
    IF ~counter.exists \/ t >= counter.windowEnd
    THEN [res |-> Result(TRUE, [msg |-> "rate limit", count |-> 1, max |-> r.maxRequests],
                         <<"rate-ok">>),
          cs  |-> [cs EXCEPT ![ctx.ClientIP] =
                      [exists |-> TRUE, count |-> 1, windowEnd |-> t + r.window]]]
    ELSE LET c == counter.count + 1
             cs2 == [cs EXCEPT ![ctx.ClientIP].count = c] IN
         IF c > r.maxRequests
         THEN [res |-> Result(FALSE, [msg |-> "rate limit exceeded", count |-> c,
                                      max |-> r.maxRequests], <<"rate-exceeded">>),
               cs |-> cs2]
         ELSE [res |-> Result(TRUE, [msg |-> "rate limit", count |-> c, max |-> r.maxRequests],
                              <<"rate-ok">>),
               cs |-> cs2]

\* RateLimitRule.Evaluate, under r.mu: the result and the counters map it leaves
RateLimitEvaluate(r, ctx, cs, t) ==
    LET counter == cs[ctx.ClientIP] IN
    IF ~counter.exists \/ t > counter.windowEnd
    THEN [res |-> Result(TRUE, [msg |-> "rate limit", count |-> 1, max |-> r.maxRequests],
                         <<"rate-ok">>),
          cs  |-> [cs EXCEPT ![ctx.ClientIP] =
                      [exists |-> TRUE, count |-> 1, windowEnd |-> t + r.window]]]
    ELSE LET c == counter.count + 1
             cs2 == [cs EXCEPT ![ctx.ClientIP].count = c] IN
         IF c > r.maxRequests
         THEN [res |-> Result(FALSE, [msg |-> "rate limit exceeded", count |-> c,
                                      max |-> r.maxRequests], <<"rate-exceeded">>),
               cs |-> cs2]
         ELSE [res |-> Result(TRUE, [msg |-> "rate limit", count |-> c, max |-> r.maxRequests],
                              <<"rate-ok">>),
               cs |-> cs2]

\* the sweep of RateLimitRule.cleanup that deletes entries from windowEnd on
CleanupSweepAtEnd(cs, t) ==
    [ip \in DOMAIN cs |-> IF cs[ip].exists /\ t >= cs[ip].windowEnd THEN NoCounter ELSE cs[ip]]

\* the sweep of RateLimitRule.cleanup: entries past their window are deleted
CleanupSweep(cs, t) ==
    [ip \in DOMAIN cs |-> IF cs[ip].exists /\ t > cs[ip].windowEnd THEN NoCounter ELSE cs[ip]]

\* Rule.Evaluate for the rule kinds of the model
RuleEvaluate(r, ctx, cs, t) ==
    CASE r.type = "rate_limit" -> RateLimitEvaluate(r, ctx, cs, t)
      [] r.type \in {"ip_allow", "ip_deny"} ->
            [res |-> Result(ctx.ClientIP \in r.cidrs, Reason(r.type), <<r.type>>), cs |-> cs]
      [] r.type \in {"method_allow", "method_deny"} ->
            [res |-> Result(ctx.Method \in r.methods, Reason(r.type), <<r.type>>), cs |-> cs]
      [] OTHER -> [res |-> Result(FALSE, NoReason, <<>>), cs |-> cs]

\* rules.Group; isNil models a nil *Group
NilGroup == [isNil |-> TRUE, And |-> <<>>, Or |-> <<>>, Not |-> NilRule, Single |-> NilRule]

Group(and, or, not, single) ==
    [isNil |-> FALSE, And |-> and, Or |-> or, Not |-> not, Single |-> single]

RECURSIVE EvalAnd(_, _, _, _, _)
\* every rule of the list must match; stops at the first rule that does not
EvalAnd(rs, i, ctx, cs, t) ==
    LET o == RuleEvaluate(rs[i], ctx, cs, t) IN
    IF ~o.res.Matched \/ i = Len(rs) THEN o
    ELSE EvalAnd(rs, i + 1, ctx, o.cs, t)

RECURSIVE EvalOr(_, _, _, _, _)
\* some rule of the list must match; stops at the first rule that does
EvalOr(rs, i, ctx, cs, t) ==
    LET o == RuleEvaluate(rs[i], ctx, cs, t) IN
    IF o.res.Matched \/ i = Len(rs) THEN o
    ELSE EvalOr(rs, i + 1, ctx, o.cs, t)

\* Evaluator.EvaluateGroup
EvaluateGroup(g, ctx, cs, t) ==
    IF g.isNil THEN [res |-> Result(FALSE, NoReason, <<>>), cs |-> cs]
    ELSE IF g.Single # NilRule THEN RuleEvaluate(g.Single, ctx, cs, t)
    ELSE IF Len(g.And) > 0 THEN EvalAnd(g.And, 1, ctx, cs, t)
    ELSE IF Len(g.Or) > 0 THEN EvalOr(g.Or, 1, ctx, cs, t)
    ELSE IF g.Not # NilRule
         THEN LET o == RuleEvaluate(g.Not, ctx, cs, t) IN
              [res |-> Result(~o.res.Matched, o.res.Reason, o.res.Labels), cs |-> o.cs]
    ELSE [res |-> Result(FALSE, NoReason, <<>>), cs |-> cs]

-----------------------------------------------------------------------------
(* Decision engine *)

Actions == {"AllowForward", "DenyDecoy", "Drop", "Tarpit", "Redirect"}

\* decision.Decision
Decision(action, reason, labels) ==
    [Action |-> action, Reason |-> reason, Labels |-> labels, RedirectURL |-> ""]

\* Engine.Evaluate with the allow gate consulted before the deny rules
EngineEvaluateAllowFirst(allow, deny, ctx, cs, t) ==
    LET al == IF ~allow.isNil THEN EvaluateGroup(allow, ctx, cs, t)
              ELSE [res |-> Result(FALSE, NoReason, <<>>), cs |-> cs]
        dn == IF ~deny.isNil THEN EvaluateGroup(deny, ctx, al.cs, t)
              ELSE [res |-> Result(FALSE, NoReason, <<>>), cs |-> al.cs]
    IN
    IF ~allow.isNil /\ al.res.Matched
    THEN [d |-> Decision("AllowForward", al.res.Reason, al.res.Labels), cs |-> al.cs,
          denyEvaluated |-> FALSE, denyRes |-> Result(FALSE, NoReason, <<>>),
          allowEvaluated |-> TRUE, allowRes |-> al.res]
    ELSE IF ~deny.isNil /\ dn.res.Matched
    THEN [d |-> Decision("DenyDecoy", dn.res.Reason, dn.res.Labels), cs |-> dn.cs,
          denyEvaluated |-> TRUE, denyRes |-> dn.res,
          allowEvaluated |-> ~allow.isNil, allowRes |-> al.res]
    ELSE IF ~allow.isNil
    THEN [d |-> Decision("DenyDecoy", Reason("no allow rules matched"), <<"default-deny">>),
          cs |-> dn.cs,
          denyEvaluated |-> ~deny.isNil, denyRes |-> dn.res,
          allowEvaluated |-> TRUE, allowRes |-> al.res]
    ELSE [d |-> Decision("AllowForward", Reason("no rules configured"), <<"no-rules">>),
          cs |-> dn.cs,
          denyEvaluated |-> ~deny.isNil, denyRes |-> dn.res,
          allowEvaluated |-> FALSE, allowRes |-> Result(FALSE, NoReason, <<>>)]

\* Engine.Evaluate without the default deny: an allow group that does not
\* match falls through to the permissive answer
EngineEvaluateNoDefaultDeny(allow, deny, ctx, cs, t) ==
    LET dn == IF ~deny.isNil THEN EvaluateGroup(deny, ctx, cs, t)
              ELSE [res |-> Result(FALSE, NoReason, <<>>), cs |-> cs]
        al == IF ~allow.isNil THEN EvaluateGroup(allow, ctx, dn.cs, t)
              ELSE [res |-> Result(FALSE, NoReason, <<>>), cs |-> dn.cs]
    IN
    IF ~deny.isNil /\ dn.res.Matched
    THEN [d |-> Decision("DenyDecoy", dn.res.Reason, dn.res.Labels), cs |-> dn.cs,
          denyEvaluated |-> TRUE, denyRes |-> dn.res,
          allowEvaluated |-> FALSE, allowRes |-> Result(FALSE, NoReason, <<>>)]
    ELSE IF ~allow.isNil /\ al.res.Matched
    THEN [d |-> Decision("AllowForward", al.res.Reason, al.res.Labels), cs |-> al.cs,
          denyEvaluated |-> ~deny.isNil, denyRes |-> dn.res,
          allowEvaluated |-> TRUE, allowRes |-> al.res]
    ELSE [d |-> Decision("AllowForward", Reason("no rules configured"), <<"no-rules">>),
          cs |-> al.cs,
          denyEvaluated |-> ~deny.isNil, denyRes |-> dn.res,
          allowEvaluated |-> ~allow.isNil, allowRes |-> al.res]

\* Engine.Evaluate that drops the requests no allow rule matches
EngineEvaluateDropByDefault(allow, deny, ctx, cs, t) ==
    LET dn == IF ~deny.isNil THEN EvaluateGroup(deny, ctx, cs, t)
              ELSE [res |-> Result(FALSE, NoReason, <<>>), cs |-> cs]
    IN
    IF ~deny.isNil /\ dn.res.Matched
    THEN [d |-> Decision("DenyDecoy", dn.res.Reason, dn.res.Labels), cs |-> dn.cs,
          denyEvaluated |-> TRUE, denyRes |-> dn.res,
          allowEvaluated |-> FALSE, allowRes |-> Result(FALSE, NoReason, <<>>)]
    ELSE IF ~allow.isNil
    THEN LET al == EvaluateGroup(allow, ctx, dn.cs, t) IN
         [d |-> IF al.res.Matched
                THEN Decision("AllowForward", al.res.Reason, al.res.Labels)
                ELSE Decision("Drop", Reason("no allow rules matched"), <<"default-deny">>),
          cs |-> al.cs,
          denyEvaluated |-> ~deny.isNil, denyRes |-> dn.res,
          allowEvaluated |-> TRUE, allowRes |-> al.res]
    ELSE [d |-> Decision("AllowForward", Reason("no rules configured"), <<"no-rules">>),
          cs |-> dn.cs,
          denyEvaluated |-> ~deny.isNil, denyRes |-> dn.res,
          allowEvaluated |-> FALSE, allowRes |-> Result(FALSE, NoReason, <<>>)]

\* Engine.Evaluate that denies when no allow group is configured
EngineEvaluateDenyWithoutAllow(allow, deny, ctx, cs, t) ==
    LET dn == IF ~deny.isNil THEN EvaluateGroup(deny, ctx, cs, t)
              ELSE [res |-> Result(FALSE, NoReason, <<>>), cs |-> cs]
    IN
    IF ~deny.isNil /\ dn.res.Matched
    THEN [d |-> Decision("DenyDecoy", dn.res.Reason, dn.res.Labels), cs |-> dn.cs,
          denyEvaluated |-> TRUE, denyRes |-> dn.res,
          allowEvaluated |-> FALSE, allowRes |-> Result(FALSE, NoReason, <<>>)]
    ELSE IF ~allow.isNil
    THEN LET al == EvaluateGroup(allow, ctx, dn.cs, t) IN
         [d |-> IF al.res.Matched
                THEN Decision("AllowForward", al.res.Reason, al.res.Labels)
                ELSE Decision("DenyDecoy", Reason("no allow rules matched"), <<"default-deny">>),
          cs |-> al.cs,
          denyEvaluated |-> ~deny.isNil, denyRes |-> dn.res,
          allowEvaluated |-> TRUE, allowRes |-> al.res]
    ELSE [d |-> Decision("DenyDecoy", Reason("no allow rules matched"), <<"default-deny">>),
          cs |-> dn.cs,
          denyEvaluated |-> ~deny.isNil, denyRes |-> dn.res,
          allowEvaluated |-> FALSE, allowRes |-> Result(FALSE, NoReason, <<>>)]

\* Engine.Evaluate that evaluates the allow group for every request
EngineEvaluateBothGroups(allow, deny, ctx, cs, t) ==
    LET dn == IF ~deny.isNil THEN EvaluateGroup(deny, ctx, cs, t)
              ELSE [res |-> Result(FALSE, NoReason, <<>>), cs |-> cs]
        al == IF ~allow.isNil THEN EvaluateGroup(allow, ctx, dn.cs, t)
              ELSE [res |-> Result(FALSE, NoReason, <<>>), cs |-> dn.cs]
    IN
    IF ~deny.isNil /\ dn.res.Matched
    THEN [d |-> Decision("DenyDecoy", dn.res.Reason, dn.res.Labels), cs |-> al.cs,
          denyEvaluated |-> TRUE, denyRes |-> dn.res,
          allowEvaluated |-> ~allow.isNil, allowRes |-> al.res]
    ELSE IF ~allow.isNil
    THEN [d |-> IF al.res.Matched
                THEN Decision("AllowForward", al.res.Reason, al.res.Labels)
                ELSE Decision("DenyDecoy", Reason("no allow rules matched"), <<"default-deny">>),
          cs |-> al.cs,
          denyEvaluated |-> ~deny.isNil, denyRes |-> dn.res,
          allowEvaluated |-> TRUE, allowRes |-> al.res]
    ELSE [d |-> Decision("AllowForward", Reason("no rules configured"), <<"no-rules">>),
          cs |-> dn.cs,
          denyEvaluated |-> ~deny.isNil, denyRes |-> dn.res,
          allowEvaluated |-> FALSE, allowRes |-> Result(FALSE, NoReason, <<>>)]

\* Engine.Evaluate: the decision, the counters the evaluated rules leave, and
\* which groups the call evaluated with which result
EngineEvaluate(allow, deny, ctx, cs, t) ==
    LET dn == IF ~deny.isNil THEN EvaluateGroup(deny, ctx, cs, t)
              ELSE [res |-> Result(FALSE, NoReason, <<>>), cs |-> cs]
    IN
    IF ~deny.isNil /\ dn.res.Matched
    THEN [d |-> Decision("DenyDecoy", dn.res.Reason, dn.res.Labels), cs |-> dn.cs,
          denyEvaluated |-> TRUE, denyRes |-> dn.res,
          allowEvaluated |-> FALSE, allowRes |-> Result(FALSE, NoReason, <<>>)]
    ELSE IF ~allow.isNil
    THEN LET al == EvaluateGroup(allow, ctx, dn.cs, t) IN
         [d |-> IF al.res.Matched
                THEN Decision("AllowForward", al.res.Reason, al.res.Labels)
                ELSE Decision("DenyDecoy", Reason("no allow rules matched"), <<"default-deny">>),
          cs |-> al.cs,
          denyEvaluated |-> ~deny.isNil, denyRes |-> dn.res,
          allowEvaluated |-> TRUE, allowRes |-> al.res]
    ELSE [d |-> Decision("AllowForward", Reason("no rules configured"), <<"no-rules">>),
          cs |-> dn.cs,
          denyEvaluated |-> ~deny.isNil, denyRes |-> dn.res,
          allowEvaluated |-> FALSE, allowRes |-> Result(FALSE, NoReason, <<>>)]

-----------------------------------------------------------------------------
(* Circuit breaker *)

CircuitClosed == "closed"
CircuitOpen == "open"
CircuitHalfOpen == "half-open"

\* DefaultCircuitBreakerConfig()
DefaultCircuitBreakerConfig ==
    [FailureThreshold |-> 5, SuccessThreshold |-> 2, Timeout |-> 30]

\* NewCircuitBreaker(cfg), constructed at time t
NewCircuitBreaker(cfg, t) ==
    [config |-> cfg, state |-> CircuitClosed, failures |-> 0, successes |-> 0,
     lastStateChange |-> t]

\* CircuitBreaker.Allow with the timeout compared strictly
AllowStrictTimeout(cb, t) ==
    CASE cb.state = CircuitClosed -> [ok |-> TRUE, cb |-> cb]
      [] cb.state = CircuitOpen ->
            IF t - cb.lastStateChange > cb.config.Timeout
            THEN [ok |-> TRUE,
                  cb |-> [cb EXCEPT !.state = CircuitHalfOpen, !.lastStateChange = t,
                                    !.successes = 0]]
            ELSE [ok |-> FALSE, cb |-> cb]
      [] cb.state = CircuitHalfOpen -> [ok |-> TRUE, cb |-> cb]

\* CircuitBreaker.Allow that rejects for as long as the breaker is open
AllowStaysOpen(cb, t) ==
    CASE cb.state = CircuitClosed -> [ok |-> TRUE, cb |-> cb]
      [] cb.state = CircuitOpen -> [ok |-> FALSE, cb |-> cb]
      [] cb.state = CircuitHalfOpen -> [ok |-> TRUE, cb |-> cb]

\* CircuitBreaker.Allow at time t: the answer and the breaker it leaves
Allow(cb, t) ==
    CASE cb.state = CircuitClosed -> [ok |-> TRUE, cb |-> cb]
      [] cb.state = CircuitOpen ->
            IF t - cb.lastStateChange >= cb.config.Timeout
            THEN [ok |-> TRUE,
                  cb |-> [cb EXCEPT !.state = CircuitHalfOpen, !.lastStateChange = t,
                                    !.successes = 0]]
            ELSE [ok |-> FALSE, cb |-> cb]
      [] cb.state = CircuitHalfOpen -> [ok |-> TRUE, cb |-> cb]

\* CircuitBreaker.RecordSuccess that closes a half-open breaker at once
RecordSuccessClosesAtOnce(cb, t) ==
    LET c1 == [cb EXCEPT !.failures = 0] IN
    CASE c1.state = CircuitHalfOpen ->
            [c1 EXCEPT !.state = CircuitClosed, !.lastStateChange = t, !.successes = 0]
      [] OTHER -> c1

\* CircuitBreaker.RecordSuccess that keeps the count of successes on closing
RecordSuccessKeepsCount(cb, t) ==
    LET c1 == [cb EXCEPT !.failures = 0] IN
    CASE c1.state = CircuitHalfOpen ->
            LET c2 == [c1 EXCEPT !.successes = c1.successes + 1] IN
            IF c2.successes >= c2.config.SuccessThreshold
            THEN [c2 EXCEPT !.state = CircuitClosed, !.lastStateChange = t]
            ELSE c2
      [] OTHER -> c1

\* CircuitBreaker.RecordSuccess at time t
RecordSuccess(cb, t) ==
    LET c1 == [cb EXCEPT !.failures = 0] IN
    CASE c1.state = CircuitHalfOpen ->
            LET c2 == [c1 EXCEPT !.successes = c1.successes + 1] IN
            IF c2.successes >= c2.config.SuccessThreshold
            THEN [c2 EXCEPT !.state = CircuitClosed, !.lastStateChange = t, !.successes = 0]
            ELSE c2
      [] OTHER -> c1

\* CircuitBreaker.RecordFailure that opens only above the threshold
RecordFailureOffByOne(cb, t) ==
    LET c1 == [cb EXCEPT !.successes = 0, !.failures = cb.failures + 1] IN
    CASE c1.state = CircuitClosed ->
            IF c1.failures > c1.config.FailureThreshold
            THEN [c1 EXCEPT !.state = CircuitOpen, !.lastStateChange = t]
            ELSE c1
      [] c1.state = CircuitHalfOpen ->
            [c1 EXCEPT !.state = CircuitOpen, !.lastStateChange = t, !.failures = 0]
      [] OTHER -> c1

\* CircuitBreaker.RecordFailure that restarts the timeout of an open breaker
RecordFailureRestartsTimeout(cb, t) ==
    LET c1 == [cb EXCEPT !.successes = 0, !.failures = cb.failures + 1] IN
    CASE c1.state = CircuitClosed ->
            IF c1.failures >= c1.config.FailureThreshold
            THEN [c1 EXCEPT !.state = CircuitOpen, !.lastStateChange = t]
            ELSE c1
      [] c1.state = CircuitHalfOpen ->
            [c1 EXCEPT !.state = CircuitOpen, !.lastStateChange = t, !.failures = 0]
      [] OTHER -> [c1 EXCEPT !.lastStateChange = t]

\* CircuitBreaker.RecordFailure at time t
RecordFailure(cb, t) ==
    LET c1 == [cb EXCEPT !.successes = 0, !.failures = cb.failures + 1] IN
    CASE c1.state = CircuitClosed ->
            IF c1.failures >= c1.config.FailureThreshold
            THEN [c1 EXCEPT !.state = CircuitOpen, !.lastStateChange = t]
            ELSE c1
      [] c1.state = CircuitHalfOpen ->
            [c1 EXCEPT !.state = CircuitOpen, !.lastStateChange = t, !.failures = 0]
      [] OTHER -> c1

\* CircuitBreaker.Reset at time t
Reset(cb, t) ==
    [cb EXCEPT !.state = CircuitClosed, !.failures = 0, !.successes = 0,
               !.lastStateChange = t]

-----------------------------------------------------------------------------
(* Backends and the pool *)

BackendNames == {"b1", "b2", "b3"}

\* the pools the gateway is constructed with (Pool.Add in configuration order)
SamplePools == { <<>>, <<"b1">>, <<"b1", "b2">> }

\* what the upstream of a backend does with one proxied request: it answers
\* with a status (and possibly a body), or the transport fails
UpstreamOutcomes ==
    { [kind |-> "response", status |-> 200, body |-> TRUE],
      [kind |-> "response", status |-> 404, body |-> TRUE],
      [kind |-> "response", status |-> 500, body |-> FALSE],
      [kind |-> "error", status |-> 0, body |-> FALSE] }

\* the status b.proxy.ServeHTTP writes: the upstream's, or 502 from ErrorHandler
ProxyStatus(outcome) == IF outcome.kind = "error" THEN 502 ELSE outcome.status

\* the status test of Backend.ServeHTTP with 500 itself left out
IsFailureStatusAbove500(statusCode) == statusCode > 500 \/ statusCode = 502

\* the status test of Backend.ServeHTTP: the reply counts as a failure
IsFailureStatus(statusCode) == statusCode >= 500 \/ statusCode = 502

\* the tail of Backend.ServeHTTP: record the outcome of the proxied request
RecordOutcome(cb, statusCode, t) ==
    IF IsFailureStatus(statusCode) THEN RecordFailure(cb, t) ELSE RecordSuccess(cb, t)

\* the calls Backend.ServeHTTP makes on its ResponseWriter, in order
WriteHeaderCall(code) == [call |-> "WriteHeader", code |-> code]

WriteCall == [call |-> "Write", code |-> 0]

\* Backend.ServeHTTP as one call: Allow, proxy, record
BackendServeHTTP(cb, outcome, t) ==
    LET a == Allow(cb, t) IN
    IF ~a.ok
    THEN [cb |-> a.cb, allowed |-> FALSE, contacted |-> FALSE, recorded |-> "",
          status |-> 503, writes |-> <<WriteHeaderCall(503)>>]
    ELSE LET st == ProxyStatus(outcome) IN
         [cb |-> RecordOutcome(a.cb, st, t), allowed |-> TRUE, contacted |-> TRUE,
          recorded |-> IF IsFailureStatus(st) THEN "failure" ELSE "success",
          status |-> st,
          writes |-> <<WriteHeaderCall(st)>> \o (IF outcome.body THEN <<WriteCall>> ELSE <<>>)]

\* the backend at 0-based position i of the list
At(bs, i) == bs[(i % Len(bs)) + 1]

\* the offsets 0..n-1 of a scan over n backends
Offsets(bs) == 0..(Len(bs) - 1)

\* Pool.Next that leaves the cursor where it is
PoolNextStuck(bs, idx) ==
    IF Len(bs) = 0 THEN [backend |-> "", idx |-> idx]
    ELSE [backend |-> At(bs, idx), idx |-> idx]

\* Pool.Next on cursor value idx: the backend ("" for nil) and the cursor it leaves
PoolNext(bs, idx) ==
    IF Len(bs) = 0 THEN [backend |-> "", idx |-> idx]
    ELSE [backend |-> At(bs, idx), idx |-> idx + 1]

\* Pool.NextHealthy that returns the backend at the cursor whatever its health
NextHealthyIgnoringHealth(bs, idx, hl) ==
    IF Len(bs) = 0 THEN [backend |-> "", idx |-> idx]
    ELSE [backend |-> At(bs, idx), idx |-> idx + 1]

\* Pool.NextHealthy that returns nil when no backend is healthy
NextHealthyNoFallback(bs, idx, hl) ==
    IF Len(bs) = 0 THEN [backend |-> "", idx |-> idx]
    ELSE LET start == idx
             found == {i \in Offsets(bs) : hl[At(bs, start + i)]}
         IN [backend |-> IF found # {}
                         THEN At(bs, start + (CHOOSE i \in found : \A j \in found : i <= j))
                         ELSE "",
             idx |-> idx + 1]

\* Pool.NextHealthy whose fallback is the first backend of the pool
NextHealthyFallbackFirst(bs, idx, hl) ==
    IF Len(bs) = 0 THEN [backend |-> "", idx |-> idx]
    ELSE LET start == idx
             found == {i \in Offsets(bs) : hl[At(bs, start + i)]}
         IN [backend |-> IF found # {}
                         THEN At(bs, start + (CHOOSE i \in found : \A j \in found : i <= j))
                         ELSE bs[1],
             idx |-> idx + 1]

\* Pool.NextHealthy on cursor value idx: the backend ("" for nil) and the cursor it leaves
NextHealthy(bs, idx, hl) ==
    IF Len(bs) = 0 THEN [backend |-> "", idx |-> idx]
    ELSE LET start == idx
             found == {i \in Offsets(bs) : hl[At(bs, start + i)]}
         IN [backend |-> IF found # {}
                         THEN At(bs, start + (CHOOSE i \in found : \A j \in found : i <= j))
                         ELSE At(bs, start),
             idx |-> idx + 1]

RECURSIVE HealthyWeight(_, _, _, _)
\* the sum of the weights of the healthy backends among the first n of the pool
HealthyWeight(bs, hl, w, n) ==
    IF n = 0 THEN 0
    ELSE HealthyWeight(bs, hl, w, n - 1) + (IF hl[bs[n]] THEN w[bs[n]] ELSE 0)

\* Pool.NextWeighted with every healthy backend counted once, whatever its weight
NextWeightedEqualShares(bs, idx, hl, w) ==
    IF Len(bs) = 0 THEN [backend |-> "", idx |-> idx]
    ELSE
    LET one == [b \in DOMAIN w |-> 1]
        totalWeight == HealthyWeight(bs, hl, one, Len(bs))
        target == (idx + 1) % totalWeight
        hit == {i \in 1..Len(bs) : hl[bs[i]] /\ target < HealthyWeight(bs, hl, one, i)}
    IN IF totalWeight = 0 THEN [backend |-> At(bs, idx), idx |-> idx + 1]
       ELSE [backend |-> bs[CHOOSE i \in hit : \A j \in hit : i <= j], idx |-> idx + 1]

\* Pool.NextWeighted: the backend returned ("" for nil) and the cursor it
\* leaves; the counter is the value of the cursor after the atomic add
NextWeighted(bs, idx, hl, w) ==
    IF Len(bs) = 0 THEN [backend |-> "", idx |-> idx]
    ELSE
    LET totalWeight == HealthyWeight(bs, hl, w, Len(bs))
        counter == idx + 1
        target == counter % totalWeight
        hit == {i \in 1..Len(bs) : hl[bs[i]] /\ target < HealthyWeight(bs, hl, w, i)}
    IN IF totalWeight = 0 THEN [backend |-> At(bs, idx), idx |-> idx + 1]
       ELSE IF hit = {} THEN [backend |-> bs[1], idx |-> idx + 1]
       ELSE [backend |-> bs[CHOOSE i \in hit : \A j \in hit : i <= j], idx |-> idx + 1]

-----------------------------------------------------------------------------
(* Pool.ServeHTTPWithRetry *)

\* the http.ResponseWriter of the client connection
NewClient == [wroteHeader |-> FALSE, status |-> 0, headerCalls |-> 0, body |-> FALSE]

\* the client's ResponseWriter after one call: the first status is the one sent
ClientCall(c, w) ==
    IF w.call = "WriteHeader"
    THEN [c EXCEPT !.headerCalls = c.headerCalls + 1,
                   !.wroteHeader = TRUE,
                   !.status = IF c.wroteHeader THEN c.status ELSE w.code]
    ELSE [c EXCEPT !.wroteHeader = TRUE,
                   !.headerCalls = IF c.wroteHeader THEN c.headerCalls ELSE c.headerCalls + 1,
                   !.status = IF c.wroteHeader THEN c.status ELSE 200,
                   !.body = TRUE]

\* retryResponseRecorder around the client's writer, as one attempt creates it
NewRecorder(client) == [statusCode |-> 0, headerWritten |-> FALSE, client |-> client]

\* retryResponseRecorder.WriteHeader that does not note that the header is out
RecorderWriteHeaderUnnoted(r, code) ==
    IF ~r.headerWritten
    THEN [r EXCEPT !.statusCode = code,
                   !.client = ClientCall(r.client, WriteHeaderCall(code))]
    ELSE r

\* retryResponseRecorder.WriteHeader
RecorderWriteHeader(r, code) ==
    IF ~r.headerWritten
    THEN [r EXCEPT !.statusCode = code, !.headerWritten = TRUE,
                   !.client = ClientCall(r.client, WriteHeaderCall(code))]
    ELSE r

\* retryResponseRecorder.Write
RecorderWrite(r) ==
    LET r1 == IF ~r.headerWritten
              THEN [r EXCEPT !.headerWritten = TRUE, !.statusCode = 200]
              ELSE r
    IN [r1 EXCEPT !.client = ClientCall(r1.client, WriteCall)]

RECURSIVE RecorderCalls(_, _)
\* the recorder after the calls ws of one Backend.ServeHTTP
RecorderCalls(r, ws) ==
    IF ws = <<>> THEN r
    ELSE RecorderCalls(IF Head(ws).call = "WriteHeader"
                       THEN RecorderWriteHeader(r, Head(ws).code)
                       ELSE RecorderWrite(r),
                       Tail(ws))

\* the first backend of the scan from position from that is in ok ("" if none)
FirstFrom(bs, from, ok) ==
    LET found == {i \in Offsets(bs) : At(bs, from + i) \in ok} IN
    IF found = {} THEN ""
    ELSE At(bs, from + (CHOOSE i \in found : \A j \in found : i <= j))

\* a selection that takes the first untried circuit-allowing backend, healthy or not
SelectAttemptIgnoringHealth(bs, from, tried, hl, cbs, t) ==
    LET untried == {bs[i] : i \in 1..Len(bs)} \ tried
        good == {b \in untried : Allow(cbs[b], t).ok}
        first == FirstFrom(bs, from, good)
    IN IF first # ""
       THEN [backend |-> first, cbs |-> [cbs EXCEPT ![first] = Allow(cbs[first], t).cb]]
       ELSE [backend |-> FirstFrom(bs, from, untried), cbs |-> cbs]

\* the selection of one attempt: healthy, circuit-allowing and untried first,
\* else any untried backend
SelectAttempt(bs, from, tried, hl, cbs, t) ==
    LET untried == {bs[i] : i \in 1..Len(bs)} \ tried
        good == {b \in untried : hl[b] /\ Allow(cbs[b], t).ok}
        first == FirstFrom(bs, from, good)
    IN IF first # ""
       THEN [backend |-> first, cbs |-> [cbs EXCEPT ![first] = Allow(cbs[first], t).cb]]
       ELSE [backend |-> FirstFrom(bs, from, untried), cbs |-> cbs]

\* the success test of ServeHTTPWithRetry on the recorded status
RetrySucceeded(statusCode) ==
    statusCode > 0 /\ statusCode < 500 /\ statusCode # 502 /\ statusCode # 503

RECURSIVE RetryLoop(_, _, _, _, _, _, _, _, _, _)
\* the attempt loop of ServeHTTPWithRetry from attempt number attempt on
RetryLoop(attempt, maxRetries, start, bs, hl, outcomes, t, tried, cbs, acc) ==
    IF attempt >= maxRetries THEN [acc EXCEPT !.cbs = cbs, !.backend = ""]
    ELSE
    LET sel == SelectAttempt(bs, start + attempt, tried, hl, cbs, t) IN
    IF sel.backend = "" THEN [acc EXCEPT !.cbs = cbs, !.backend = ""]
    ELSE
    LET b == sel.backend
        o == BackendServeHTTP(sel.cbs[b], outcomes[b], t)
        rec == RecorderCalls(NewRecorder(acc.client), o.writes)
        cbs2 == [sel.cbs EXCEPT ![b] = o.cb]
        acc2 == [acc EXCEPT !.client = rec.client,
                            !.attempts = Append(acc.attempts,
                                [backend |-> b, statusCode |-> rec.statusCode,
                                 headerWritten |-> rec.headerWritten,
                                 wrote |-> rec.client # acc.client])]
    IN IF RetrySucceeded(rec.statusCode)
       THEN [acc2 EXCEPT !.cbs = cbs2, !.backend = b]
       ELSE IF attempt = maxRetries - 1 \/ rec.headerWritten
       THEN [acc2 EXCEPT !.cbs = cbs2, !.backend = b]
       ELSE RetryLoop(attempt + 1, maxRetries, start, bs, hl, outcomes, t,
                      tried \cup {b}, cbs2, acc2)

\* the maxRetries ServeHTTPWithRetry works with
ClampRetries(maxRetries, n) ==
    LET m == IF maxRetries <= 0 THEN 1 ELSE maxRetries IN
    IF m > n THEN n ELSE m

\* Pool.ServeHTTPWithRetry that returns nil when the last attempt failed
ServeHTTPWithRetryNilOnFailure(bs, idx, hl, cbs, maxRetries, outcomes, t) ==
    LET acc0 == [backend |-> "", attempts |-> <<>>, client |-> NewClient, cbs |-> cbs,
                 idx |-> idx]
        r == RetryLoop(0, ClampRetries(maxRetries, Len(bs)), idx, bs, hl, outcomes, t,
                       {}, cbs, [acc0 EXCEPT !.idx = idx + 1])
    IN IF Len(bs) = 0 THEN acc0
       ELSE IF r.attempts # <<>> /\ ~RetrySucceeded(r.attempts[Len(r.attempts)].statusCode)
       THEN [r EXCEPT !.backend = ""]
       ELSE r

\* Pool.ServeHTTPWithRetry: the backend returned ("" for nil), the attempts
\* made, what the client was sent, and the breakers and the cursor it leaves
ServeHTTPWithRetry(bs, idx, hl, cbs, maxRetries, outcomes, t) ==
    LET acc0 == [backend |-> "", attempts |-> <<>>, client |-> NewClient, cbs |-> cbs,
                 idx |-> idx]
    IN IF Len(bs) = 0 THEN acc0
       ELSE RetryLoop(0, ClampRetries(maxRetries, Len(bs)), idx, bs, hl, outcomes, t,
                      {}, cbs, [acc0 EXCEPT !.idx = idx + 1])

NoRetry ==
    [called |-> FALSE, maxRetries |-> 0, backend |-> "", attempts |-> <<>>,
     client |-> NewClient]

-----------------------------------------------------------------------------
(* Gateway handler *)

\* the X-Forwarded-For values of the model, as the list of comma-separated parts
XFFs == { <<>>, <<"8.8.8.8">>, <<"10.0.0.1", "8.8.8.8">> }

\* the fields of an incoming request the handler reads
Requests ==
    [RemoteAddr : ClientIPs, XFF : XFFs, XRealIP : {""} \cup ClientIPs, Method : Methods]

\* the requests sent to the gateway
GatewayRequests ==
    { r \in Requests : (r.XFF = <<>> \/ r.XRealIP = "") /\ (r.Method = "POST" => r.XFF = <<>>) }

\* Handler.extractClientIP that honours the headers of every peer
extractClientIPTrustAll(trusted, r) ==
    LET directIP == r.RemoteAddr
    IN IF r.XFF # <<>> THEN r.XFF[1]
       ELSE IF r.XRealIP # "" THEN r.XRealIP
       ELSE directIP

\* Handler.extractClientIP
extractClientIP(trusted, r) ==
    LET directIP == r.RemoteAddr
        fromHeaders == IF r.XFF # <<>> THEN r.XFF[1]
                       ELSE IF r.XRealIP # "" THEN r.XRealIP
                       ELSE directIP
    IN IF trusted = {} THEN fromHeaders
       ELSE IF directIP \in trusted THEN fromHeaders
       ELSE directIP

\* the status the configured decoy strategy answers with (static decoy, 200)
DecoyStatus == 200

\* the switch of Handler.ServeHTTP with the backend picked ahead of it
HandlerSelectBeforeSwitch(action, bs, idx, hl) ==
    LET nh == NextHealthy(bs, idx, hl) IN
    [decoy |-> action # "AllowForward", backend |-> nh.backend, idx |-> nh.idx]

\* the switch of Handler.ServeHTTP on the decision's action: a backend of the
\* pool for AllowForward, the decoy strategy and no backend for DenyDecoy
HandlerSelect(action, bs, idx, hl) ==
    IF action = "AllowForward"
    THEN LET nh == NextHealthy(bs, idx, hl) IN
         [decoy |-> FALSE, backend |-> nh.backend, idx |-> nh.idx]
    ELSE [decoy |-> TRUE, backend |-> "", idx |-> idx]

-----------------------------------------------------------------------------
(* Profiles the engine is constructed with *)

\* the client addresses inside 10.0.0.0/8
Net10 == {"10.0.0.1"}
\* the client addresses inside 0.0.0.0/0
NetAll == {"10.0.0.1", "8.8.8.8"}

SampleGroups ==
    { NilGroup,
      Group(<<>>, <<>>, NilRule, NilRule),
      Group(<<>>, <<>>, NilRule, IPRule("allow", NetAll)),
      Group(<<IPRule("allow", Net10), MethodRule("allow", {"GET"})>>, <<>>, NilRule, NilRule),
      Group(<<>>, <<IPRule("deny", Net10), MethodRule("deny", {"POST"})>>, NilRule, NilRule),
      Group(<<>>, <<>>, IPRule("allow", Net10), NilRule),
      Group(<<>>, <<>>, NilRule, NewRateLimitRule(2, 20)) }

\* the group holds the rate-limit rule (one instance, one counters map, per profile)
HasRateLimit(g) == g.Single.type = "rate_limit"

NoEval ==
    [called |-> FALSE, ctx |-> [ClientIP |-> "10.0.0.1", Method |-> "GET"],
     d |-> Decision("AllowForward", NoReason, <<>>),
     denyEvaluated |-> FALSE, denyRes |-> Result(FALSE, NoReason, <<>>),
     allowEvaluated |-> FALSE, allowRes |-> Result(FALSE, NoReason, <<>>)]

-----------------------------------------------------------------------------
(* HTTPListener.  Stop is http.Server.Shutdown: it closes the acceptor and   *)
(* the idle connections, then waits until no connection is left or the       *)
(* context is done, whichever comes first.                                   *)

\* the connections of the model
ConnIds == {"c1", "c2"}

\* no Stop call has been made
NoStop == [pc |-> "none", deadline |-> 0, err |-> "", inflight |-> 0]

\* NewHTTPListener: no server yet
NewHTTPListener ==
    [state |-> "new", conns |-> [c \in ConnIds |-> "none"], activeConns |-> 0,
     stop |-> NoStop]

\* HTTPListener.Start: the server serves the acceptor
ListenerStart(l) == [l EXCEPT !.state = "serving"]

\* HTTPListener.trackConnState
trackConnState(l, state) ==
    CASE state = "StateNew" -> [l EXCEPT !.activeConns = l.activeConns + 1]
      [] state \in {"StateClosed", "StateHijacked"} ->
            [l EXCEPT !.activeConns = l.activeConns - 1]
      [] OTHER -> l

\* the acceptor takes new connections: the server serves and is not shut down
Accepting(l) == l.state = "serving"

\* a connection is accepted and its first request is being served
ListenerAccept(l, c) == trackConnState([l EXCEPT !.conns[c] = "active"], "StateNew")

\* the handler of the request on connection c returns: the connection is
\* kept alive while the server serves and closed once it is shutting down
ListenerRequestDone(l, c) ==
    IF l.state = "serving" THEN [l EXCEPT !.conns[c] = "idle"]
    ELSE trackConnState([l EXCEPT !.conns[c] = "closed"], "StateClosed")

\* the connection is closed (by the client, or by the server as idle)
ListenerConnClosed(l, c) == trackConnState([l EXCEPT !.conns[c] = "closed"], "StateClosed")

\* the connections with a request being served
ActiveConns(l) == {c \in ConnIds : l.conns[c] = "active"}

\* the connections that are open
OpenConns(l) == {c \in ConnIds : l.conns[c] \in {"active", "idle"}}

\* HTTPListener.Stop(ctx), up to the wait: nil at once without a server, else
\* the acceptor and the idle connections are closed and the wait begins
ListenerStopBegin(l, t, budget) ==
    IF l.state = "new"
    THEN [l EXCEPT !.stop = [pc |-> "returned", deadline |-> t + budget, err |-> "nil",
                             inflight |-> 0]]
    ELSE LET idle == {c \in ConnIds : l.conns[c] = "idle"} IN
         [l EXCEPT !.state = "draining",
                   !.conns = [c \in ConnIds |-> IF c \in idle THEN "closed" ELSE l.conns[c]],
                   !.activeConns = l.activeConns - Cardinality(idle),
                   !.stop = [pc |-> "waiting", deadline |-> t + budget, err |-> "",
                             inflight |-> Cardinality(ActiveConns(l))]]

\* a Shutdown that does not wait
ListenerStopCanReturnAtOnce(l, t) == l.stop.pc = "waiting"

\* the wait of Shutdown is over: every connection is gone, or the context is done
ListenerStopCanReturn(l, t) ==
    l.stop.pc = "waiting" /\ (ActiveConns(l) = {} \/ t >= l.stop.deadline)

\* HTTPListener.Stop returns what Shutdown returns; nothing else is done to
\* the connections that are left
ListenerStopReturn(l, t) ==
    [l EXCEPT !.state = "shutdown",
              !.stop.pc = "returned",
              !.stop.err = IF ActiveConns(l) = {} THEN "nil" ELSE "context deadline exceeded"]

\* profile.Manager.Stop(ctx): Stop(ctx) on the listener of the profile
ProfileManagerStop(l, t, budget) == ListenerStopBegin(l, t, budget)

-----------------------------------------------------------------------------
(* main(): start-up and the shutdown sequence on SIGINT/SIGTERM *)

\* the health checkers main() starts, one per backend pool, in slice order
CheckerIds == <<"p1", "p2">>

\* the budget of adminAPI.Stop, seconds
AdminStopBudget == 5

\* the budget of profileMgr.Stop, seconds
ProfileStopBudget == 10

\* HealthChecker after Start: running, its goroutine waiting for the ticker
StartedChecker ==
    [running |-> TRUE, stopClosed |-> FALSE, panicked |-> FALSE, loop |-> "ticking"]

\* a Stop that closes the stop channel whether the checker runs or not
HealthCheckerStopUnguarded(hc) ==
    IF hc.stopClosed THEN [hc EXCEPT !.running = FALSE, !.panicked = TRUE]
    ELSE [hc EXCEPT !.running = FALSE, !.stopClosed = TRUE]

\* HealthChecker.Stop: nothing for a checker that is not running; else running
\* is cleared and hc.stop closed, which panics if it was closed before
HealthCheckerStop(hc) ==
    IF ~hc.running THEN hc
    ELSE IF hc.stopClosed THEN [hc EXCEPT !.running = FALSE, !.panicked = TRUE]
    ELSE [hc EXCEPT !.running = FALSE, !.stopClosed = TRUE]

\* NewHealthChecker: not running, the stop channel open
NewHealthChecker == [running |-> FALSE, stopClosed |-> FALSE, panicked |-> FALSE]

\* HealthChecker.Start up to the first checkAll: nothing for a running checker
HealthCheckerStart(hc) == IF hc.running THEN hc ELSE [hc EXCEPT !.running = TRUE]

\* a thread of the checker: Start's caller in the initial checkAll, then the
\* goroutine Start spawns; pos is the backend checkAll is at
NewLoop(bs) ==
    [pc |-> IF Len(bs) = 0 THEN "ticking" ELSE "checking", pos |-> 1, inflight |-> FALSE]

\* a checker nobody has called yet
IdleChecker ==
    [hc |-> NewHealthChecker, loops |-> <<>>, starts |-> 0, stops |-> 0,
     stoppedFresh |-> FALSE, issuedAfterStop |-> FALSE, updatedAfterStop |-> FALSE]

\* the admin API: its server and whether a request is being served
StartedAdmin ==
    [configured |-> TRUE, state |-> "serving", busy |-> FALSE, deadline |-> 0,
     returnedAt |-> 0]

\* no admin API (metrics_addr empty)
NoAdmin ==
    [configured |-> FALSE, state |-> "none", busy |-> FALSE, deadline |-> 0,
     returnedAt |-> 0]

\* the shutdown sequence with the listeners drained first
MainAfterListenersFirst(stage) ==
    CASE stage = "signal" -> "stopProfiles"
      [] stage = "stopProfiles" -> "stopCheckers"
      [] stage = "stopCheckers" -> "stopAdmin"
      [] stage = "stopAdmin" -> "exiting"

\* the shutdown sequence of main() on SIGINT/SIGTERM: what follows each stage
MainAfter(stage) ==
    CASE stage = "signal" -> "stopCheckers"
      [] stage = "stopCheckers" -> "stopAdmin"
      [] stage = "stopAdmin" -> "stopProfiles"
      [] stage = "stopProfiles" -> "exiting"

\* main() after start-up
StartedMain(admin) ==
    [pc |-> "running", next |-> 1,
     checkers |-> [i \in 1..Len(CheckerIds) |-> StartedChecker],
     admin |-> admin]

-----------------------------------------------------------------------------
(* Components left idle *)

\* no selection has been recorded
InitSel ==
    /\ picks = <<>>
    /\ weight = [b \in BackendNames |-> 1]

\* the tasks that call RateLimitRule.Evaluate
RateTasks == {"t1", "t2", "t3"}

\* a task outside Evaluate
IdleTask == [pc |-> "idle", ip |-> "", t |-> 0, counter |-> NoCounter]

\* no task is inside RateLimitRule.Evaluate
InitRateTasks ==
    /\ rateMu = ""
    /\ rateTask = [k \in RateTasks |-> IdleTask]
    /\ evals = <<>>

InitRateIdle == rule = NilRule /\ InitRateTasks

\* extractClientIP has not been called
InitAttributed == attributed = <<>>

\* no process and no listener
InitLifeIdle == proc = StartedMain(NoAdmin) /\ ln = NewHTTPListener

\* metrics.New() with no request recorded; configured is FALSE for a nil
\* Handler.metrics
NewMetrics(configured) ==
    [configured |-> configured, totalRequests |-> 0, allowedRequests |-> 0,
     deniedRequests |-> 0, droppedRequests |-> 0]

\* a logger that has emitted nothing; configured is FALSE for a nil Handler.logger
NewLogger(configured) == [configured |-> configured, records |-> <<>>]

\* the goroutines the server runs Handler.ServeHTTP on, one request each
HandlerGoroutines == {"g1", "g2"}

\* a goroutine that has not entered ServeHTTP
IdleHandling ==
    [pc |-> "idle", header |-> "", requestID |-> "", respHeader |-> <<>>, reqHeader |-> "",
     action |-> "", responded |-> FALSE, contacted |-> FALSE, received |-> "",
     statusCode |-> 0, counted |-> 0]

InitReqIdle ==
    /\ handling = [g \in HandlerGoroutines |-> IdleHandling]
    /\ metrics = NewMetrics(TRUE)
    /\ requestLog = NewLogger(TRUE)

InitCheckerIdle == checker = IdleChecker

\* the cleanup goroutine NewRateLimitRule starts, and the stop fields it sets
NewSweeper ==
    [stopped |-> FALSE, stopClosed |-> FALSE, panicked |-> FALSE, pc |-> "select",
     stops |-> 0, sweptAfterStop |-> FALSE]

InitSweeperIdle == sweeper = NewSweeper

InitLate == InitReqIdle /\ InitCheckerIdle /\ InitSweeperIdle

InitOther == InitSel /\ InitRateIdle /\ InitAttributed /\ InitLifeIdle /\ InitLate

-----------------------------------------------------------------------------
(* Clock *)

\* the clock is observed every 10 seconds by the rules and the lone breaker,
\* and once per breaker timeout by the gateway
FineSteps == {10}

CoarseSteps == {DefaultCircuitBreakerConfig.Timeout}

\* time passes
Tick(steps) ==
    /\ \E d \in steps :
          /\ now + d <= MaxTime
          /\ now' = now + d
    /\ lastOp' = Op("Tick")
    /\ UNCHANGED <<engineVars, breakerVars, trustedProxies, otherVars, poolVars, proxying, retryOut>>

-----------------------------------------------------------------------------
(* Specification of the decision engine alone *)

\* NewEngine(allowRules, denyRules) for some profile
InitEngine ==
    /\ now = 0
    /\ allowRules \in SampleGroups
    /\ denyRules \in SampleGroups
    /\ ~(HasRateLimit(allowRules) /\ HasRateLimit(denyRules))
    /\ counters = EmptyCounters
    /\ evalOut = NoEval
    /\ breaker = NewCircuitBreaker(DefaultCircuitBreakerConfig, 0)
    /\ allowOut = TRUE
    /\ failRun = 0
    /\ succRun = 0
    /\ trustedProxies = {}
    /\ backends = <<>>
    /\ healthy = [b \in BackendNames |-> TRUE]
    /\ circuitBreaker = [b \in BackendNames |->
                            NewCircuitBreaker(DefaultCircuitBreakerConfig, 0)]
    /\ currentIdx = 0
    /\ proxying = [b \in BackendNames |-> 0]
    /\ retryOut = NoRetry
    /\ InitOther
    /\ lastOp = Op("init")

\* one call of Engine.Evaluate
Evaluate ==
    /\ \E ctx \in Context :
          LET o == EngineEvaluate(allowRules, denyRules, ctx, counters, now) IN
          /\ evalOut' = [called |-> TRUE, ctx |-> ctx, d |-> o.d,
                         denyEvaluated |-> o.denyEvaluated, denyRes |-> o.denyRes,
                         allowEvaluated |-> o.allowEvaluated, allowRes |-> o.allowRes]
          /\ \A ip \in ClientIPs : o.cs[ip].count <= MaxCount
          /\ counters' = o.cs
    /\ lastOp' = Op("Evaluate")
    /\ UNCHANGED <<now, allowRules, denyRules, breakerVars, trustedProxies, otherVars, poolVars,
                   proxying, retryOut>>

NextEngine == Evaluate \/ Tick(FineSteps)

SpecEngine == InitEngine /\ [][NextEngine]_vars

-----------------------------------------------------------------------------
(* Specification of one circuit breaker under an arbitrary stream of calls. *)
(* Every method runs under cb.mu, so the calls of concurrent requests are   *)
(* a sequence of these steps.                                               *)

Timeouts == {10, 20}

BreakerConfigs ==
    {DefaultCircuitBreakerConfig} \cup
    [FailureThreshold : 1..MaxThreshold, SuccessThreshold : 1..MaxThreshold,
     Timeout : Timeouts]

InitBreaker ==
    /\ now = 0
    /\ allowRules = NilGroup
    /\ denyRules = NilGroup
    /\ counters = EmptyCounters
    /\ evalOut = NoEval
    /\ \E cfg \in BreakerConfigs : breaker = NewCircuitBreaker(cfg, 0)
    /\ allowOut = TRUE
    /\ failRun = 0
    /\ succRun = 0
    /\ trustedProxies = {}
    /\ backends = <<>>
    /\ healthy = [b \in BackendNames |-> TRUE]
    /\ circuitBreaker = [b \in BackendNames |->
                            NewCircuitBreaker(DefaultCircuitBreakerConfig, 0)]
    /\ currentIdx = 0
    /\ proxying = [b \in BackendNames |-> 0]
    /\ retryOut = NoRetry
    /\ InitOther
    /\ lastOp = Op("init")

\* a caller asks breaker.Allow()
BreakerAllow ==
    /\ LET o == Allow(breaker, now) IN
          /\ breaker' = o.cb
          /\ allowOut' = o.ok
          /\ succRun' = IF breaker.state = CircuitOpen /\ o.cb.state = CircuitHalfOpen
                         THEN 0 ELSE succRun
    /\ lastOp' = Op("Allow")
    /\ UNCHANGED <<now, engineVars, failRun, trustedProxies, otherVars, poolVars, proxying, retryOut>>

\* a caller reports a success
BreakerRecordSuccess ==
    /\ breaker' = RecordSuccess(breaker, now)
    /\ failRun' = 0
    /\ succRun' = IF breaker.state = CircuitHalfOpen THEN succRun + 1 ELSE succRun
    /\ lastOp' = Op("RecordSuccess")
    /\ UNCHANGED <<now, engineVars, allowOut, trustedProxies, otherVars, poolVars, proxying, retryOut>>

\* a caller reports a failure
BreakerRecordFailure ==
    /\ breaker.failures < MaxFailures
    /\ breaker' = RecordFailure(breaker, now)
    /\ failRun' = IF breaker.state = CircuitClosed THEN failRun + 1 ELSE failRun
    /\ lastOp' = Op("RecordFailure")
    /\ UNCHANGED <<now, engineVars, allowOut, succRun, trustedProxies, otherVars, poolVars, proxying,
                   retryOut>>

\* an operator resets the breaker
BreakerReset ==
    /\ breaker' = Reset(breaker, now)
    /\ failRun' = 0
    /\ lastOp' = Op("Reset")
    /\ UNCHANGED <<now, engineVars, allowOut, succRun, trustedProxies, otherVars, poolVars, proxying,
                   retryOut>>

NextBreaker ==
    BreakerAllow \/ BreakerRecordSuccess \/ BreakerRecordFailure \/ BreakerReset \/ Tick(FineSteps)

SpecBreaker == InitBreaker /\ [][NextBreaker]_vars

\* the breaker of a backend that keeps being sent requests which succeed: time
\* passes, Allow() keeps being asked and successes keep being recorded
SpecBreakerLive ==
    /\ SpecBreaker
    /\ WF_vars(Tick(FineSteps))
    /\ WF_vars(BreakerAllow)
    /\ WF_vars(BreakerRecordSuccess)

-----------------------------------------------------------------------------
(* Specification of the gateway: handler, pool, backends and their breakers *)

\* the configurations the handler is constructed with (NewHandler)
GatewayProfiles ==
    { [allow |-> Group(<<IPRule("allow", Net10)>>, <<>>, NilRule, NilRule),
       deny |-> NilGroup, trusted |-> {}],
      [allow |-> NilGroup,
       deny |-> Group(<<>>, <<IPRule("deny", {"8.8.8.8"}), MethodRule("deny", {"POST"})>>,
                      NilRule, NilRule),
       trusted |-> {"10.0.0.1"}] }

\* the backends of the pool
Members == {backends[i] : i \in 1..Len(backends)}

\* the requests being proxied
Inflight == proxying["b1"] + proxying["b2"] + proxying["b3"]

Init ==
    /\ now = 0
    /\ \E p \in GatewayProfiles :
          /\ allowRules = p.allow
          /\ denyRules = p.deny
          /\ trustedProxies = p.trusted
    /\ counters = EmptyCounters
    /\ evalOut = NoEval
    /\ breaker = NewCircuitBreaker(DefaultCircuitBreakerConfig, 0)
    /\ allowOut = TRUE
    /\ failRun = 0
    /\ succRun = 0
    /\ backends \in SamplePools
    /\ healthy = [b \in BackendNames |-> TRUE]
    /\ circuitBreaker = [b \in BackendNames |->
                            NewCircuitBreaker(DefaultCircuitBreakerConfig, 0)]
    /\ currentIdx = 0
    /\ proxying = [b \in BackendNames |-> 0]
    /\ retryOut = NoRetry
    /\ InitOther
    /\ lastOp = Op("init")

\* Handler.ServeHTTP up to the point where the request is handed to the
\* upstream: client IP, decision, and for AllowForward the selection of a
\* backend and the Allow() of its breaker.  A request that is not handed to an
\* upstream is answered in this step.
HandlerServeHTTP ==
    \E r \in GatewayRequests :
      LET clientIP == extractClientIP(trustedProxies, r)
          e == EngineEvaluate(allowRules, denyRules,
                              [ClientIP |-> clientIP, Method |-> r.Method], counters, now)
          sel == HandlerSelect(e.d.Action, backends, currentIdx, healthy)
          b == sel.backend
          op == [Op("ServeHTTP") EXCEPT !.action = e.d.Action, !.backend = b]
      IN
      /\ counters' = e.cs
      /\ sel.idx <= MaxCursor
      /\ currentIdx' = sel.idx
      /\ IF sel.decoy
         THEN /\ lastOp' = [op EXCEPT !.decoy = TRUE, !.status = DecoyStatus]
              /\ UNCHANGED <<circuitBreaker, proxying>>
         ELSE IF b = ""
         THEN /\ lastOp' = [op EXCEPT !.status = 502]
              /\ UNCHANGED <<circuitBreaker, proxying>>
         ELSE LET a == Allow(circuitBreaker[b], now) IN
              /\ circuitBreaker' = [circuitBreaker EXCEPT ![b] = a.cb]
              /\ IF a.ok
                 THEN /\ Inflight < MaxInflight
                      /\ proxying' = [proxying EXCEPT ![b] = proxying[b] + 1]
                      /\ lastOp' = [op EXCEPT !.allowed = TRUE, !.contacted = TRUE]
                 ELSE /\ proxying' = proxying
                      /\ lastOp' = [op EXCEPT !.status = 503]
      /\ UNCHANGED <<now, allowRules, denyRules, evalOut, breakerVars, trustedProxies, otherVars,
                     backends, healthy, retryOut>>

\* the proxy call of a request returns: Backend.ServeHTTP records the outcome
\* and Handler.ServeHTTP finishes
ProxyReturn ==
    \E b \in Members, outcome \in UpstreamOutcomes :
      LET st == ProxyStatus(outcome) IN
      /\ proxying[b] > 0
      /\ proxying' = [proxying EXCEPT ![b] = proxying[b] - 1]
      /\ circuitBreaker' = [circuitBreaker EXCEPT
                               ![b] = RecordOutcome(circuitBreaker[b], st, now)]
      /\ lastOp' = [Op("ProxyReturn") EXCEPT
                       !.action = "AllowForward", !.backend = b, !.status = st,
                       !.allowed = TRUE, !.contacted = TRUE,
                       !.recorded = IF IsFailureStatus(st) THEN "failure" ELSE "success"]
      /\ UNCHANGED <<now, engineVars, breakerVars, trustedProxies, otherVars, backends, healthy,
                     currentIdx, retryOut>>

\* Backend.SetHealthy, as the health checker calls it with the result of a probe
SetHealthy ==
    \E b \in Members, h \in BOOLEAN :
      /\ healthy' = [healthy EXCEPT ![b] = h]
      /\ lastOp' = [Op("SetHealthy") EXCEPT !.backend = b]
      /\ UNCHANGED <<now, engineVars, breakerVars, trustedProxies, otherVars, backends,
                     circuitBreaker, currentIdx, proxying, retryOut>>

Next == HandlerServeHTTP \/ ProxyReturn \/ SetHealthy \/ Tick(CoarseSteps)

Spec == Init /\ [][Next]_vars

-----------------------------------------------------------------------------
(* Specification of the pool under ServeHTTPWithRetry calls *)

\* largest maxRetries argument
MaxRetriesArg == 2

\* largest value the pool cursor is driven to by ServeHTTPWithRetry calls
MaxRetryCursor == 6

\* what the upstreams do with a request served through ServeHTTPWithRetry
RetryOutcomes == {o \in UpstreamOutcomes : o.status # 404}

InitRetry ==
    /\ now = 0
    /\ allowRules = NilGroup
    /\ denyRules = NilGroup
    /\ trustedProxies = {}
    /\ counters = EmptyCounters
    /\ evalOut = NoEval
    /\ breaker = NewCircuitBreaker(DefaultCircuitBreakerConfig, 0)
    /\ allowOut = TRUE
    /\ failRun = 0
    /\ succRun = 0
    /\ backends \in SamplePools
    /\ healthy = [b \in BackendNames |-> TRUE]
    /\ circuitBreaker = [b \in BackendNames |->
                            NewCircuitBreaker(DefaultCircuitBreakerConfig, 0)]
    /\ currentIdx = 0
    /\ proxying = [b \in BackendNames |-> 0]
    /\ retryOut = NoRetry
    /\ InitOther
    /\ lastOp = Op("init")

\* one call of Pool.ServeHTTPWithRetry
RetryServe ==
    \E maxRetries \in 0..MaxRetriesArg, outcomes \in [Members -> RetryOutcomes] :
      LET o == ServeHTTPWithRetry(backends, currentIdx, healthy, circuitBreaker,
                                  maxRetries, outcomes, now)
      IN
      /\ Len(backends) = 0 \/ currentIdx < MaxRetryCursor
      /\ currentIdx' = o.idx
      /\ circuitBreaker' = o.cbs
      /\ retryOut' = [called |-> TRUE, maxRetries |-> maxRetries, backend |-> o.backend,
                      attempts |-> o.attempts, client |-> o.client]
      /\ lastOp' = [Op("ServeHTTPWithRetry") EXCEPT !.backend = o.backend]
      /\ UNCHANGED <<now, engineVars, breakerVars, trustedProxies, otherVars, backends, healthy,
                     proxying>>

NextRetry == RetryServe \/ SetHealthy \/ Tick(CoarseSteps)

SpecRetry == InitRetry /\ [][NextRetry]_vars

-----------------------------------------------------------------------------
(* Handler.ServeHTTP step by step: request ID, decision, dispatch, metrics,  *)
(* log.  Each request is handled by its own goroutine.                       *)

HexDigits ==
    <<"0", "1", "2", "3", "4", "5", "6", "7", "8", "9", "a", "b", "c", "d", "e", "f">>

\* the two hex digits of one byte
HexByte(b) == HexDigits[(b \div 16) + 1] \o HexDigits[(b % 16) + 1]

RECURSIVE EncodeToString(_)
\* hex.EncodeToString
EncodeToString(bytes) ==
    IF bytes = <<>> THEN "" ELSE HexByte(Head(bytes)) \o EncodeToString(Tail(bytes))

\* the length of the buffer generateRequestID fills
RequestIDBytes == 16

\* buffers rand.Read may leave in generateRequestID
RandomBuffers ==
    { [i \in 1..RequestIDBytes |-> 0],
      [i \in 1..RequestIDBytes |-> 255],
      [i \in 1..RequestIDBytes |-> (i * 37) % 256] }

\* generateRequestID, given what rand.Read put into the buffer
generateRequestID(buffer) == EncodeToString(buffer)

\* the X-Request-ID values clients send ("" when the header is absent)
ClientRequestIDs == {"", "req-1", "REQ-1 "}

\* the X-Request-ID an upstream puts on its response ("" for none)
UpstreamRequestIDs == {"", "up-7"}

\* the request-ID stamping that leaves the request's own header as it came
StampRequestIDNotForwarded(header, buffer) ==
    LET requestID == IF header = "" THEN generateRequestID(buffer) ELSE header IN
    [requestID |-> requestID, respHeader |-> <<requestID>>, reqHeader |-> header]

\* the head of Handler.ServeHTTP: the request ID, the X-Request-ID values of
\* the response header and the X-Request-ID of the request handed on
StampRequestID(header, buffer) ==
    LET requestID == IF header = "" THEN generateRequestID(buffer) ELSE header IN
    [requestID |-> requestID, respHeader |-> <<requestID>>, reqHeader |-> requestID]

\* Action.String
ActionString(action) ==
    CASE action = "AllowForward" -> "allow_forward"
      [] action = "DenyDecoy" -> "deny_decoy"
      [] action = "Drop" -> "drop"
      [] action = "Tarpit" -> "tarpit"
      [] action = "Redirect" -> "redirect"
      [] OTHER -> "unknown"

\* Metrics.RecordRequest
RecordRequest(m, action) ==
    [m EXCEPT !.totalRequests = @ + 1,
              !.allowedRequests = IF action = "allow_forward" THEN @ + 1 ELSE @,
              !.deniedRequests = IF action = "deny_decoy" THEN @ + 1 ELSE @,
              !.droppedRequests = IF action = "drop" THEN @ + 1 ELSE @]

\* a handler that returns early for no action
ReturnsBeforeMetricsNever(action) == FALSE

\* the switch of Handler.ServeHTTP returns before the metrics and the log
ReturnsBeforeMetrics(action) == action = "Drop"

\* the status code Handler.ServeHTTP notes for an action that is not forwarded
NotedStatus(action) ==
    CASE action = "DenyDecoy" -> DecoyStatus
      [] action = "Tarpit" -> DecoyStatus
      [] action = "Redirect" -> 302
      [] OTHER -> 0

\* a request Handler.ServeHTTP has just taken up
NewHandling(header, stamp, action) ==
    [pc |-> "dispatch", header |-> header, requestID |-> stamp.requestID,
     respHeader |-> stamp.respHeader, reqHeader |-> stamp.reqHeader,
     action |-> action, responded |-> FALSE, contacted |-> FALSE, received |-> "",
     statusCode |-> 0, counted |-> 0]

\* the requests taken up so far
Handled == {g \in DOMAIN handling : handling[g].pc # "idle"}

-----------------------------------------------------------------------------
(* Specification of the pool under Next and NextHealthy calls.  A call takes *)
(* its cursor value with one atomic add, so the calls of concurrent callers  *)
(* are ordered by the cursor values they obtain.                             *)

\* largest number of selections made on one pool
MaxPicks == 4

\* the pools selections are made on
SelectionPools == SamplePools \cup { <<"b1", "b2", "b3">> }

\* every backend of the pool is healthy
AllHealthy == \A b \in Members : healthy[b]

InitPool ==
    /\ now = 0
    /\ allowRules = NilGroup
    /\ denyRules = NilGroup
    /\ trustedProxies = {}
    /\ counters = EmptyCounters
    /\ evalOut = NoEval
    /\ breaker = NewCircuitBreaker(DefaultCircuitBreakerConfig, 0)
    /\ allowOut = TRUE
    /\ failRun = 0
    /\ succRun = 0
    /\ backends \in SelectionPools
    /\ healthy = [b \in BackendNames |-> TRUE]
    /\ circuitBreaker = [b \in BackendNames |->
                            NewCircuitBreaker(DefaultCircuitBreakerConfig, 0)]
    /\ currentIdx = 0
    /\ proxying = [b \in BackendNames |-> 0]
    /\ retryOut = NoRetry
    /\ InitSel
    /\ InitRateIdle
    /\ InitAttributed
    /\ InitLate
    /\ InitLifeIdle
    /\ lastOp = Op("init")

\* a selection made by the call named fn with result o
Select(fn, o) ==
    /\ Len(picks) < MaxPicks
    /\ currentIdx' = o.idx
    /\ picks' = IF o.backend = "" THEN picks
                ELSE Append(picks, [fn |-> fn, backend |-> o.backend,
                                    allHealthy |-> AllHealthy])
    /\ lastOp' = [Op(fn) EXCEPT !.backend = o.backend]
    /\ UNCHANGED <<now, engineVars, breakerVars, trustedProxies, backends, healthy,
                   circuitBreaker, proxying, retryOut, weight, rateVars, ipVars, lifeVars, lateVars>>

\* one call of Pool.Next
PoolCallNext == Select("Next", PoolNext(backends, currentIdx))

\* one call of Pool.NextHealthy
PoolCallNextHealthy == Select("NextHealthy", NextHealthy(backends, currentIdx, healthy))

NextPool == PoolCallNext \/ PoolCallNextHealthy \/ SetHealthy

SpecPool == InitPool /\ [][NextPool]_vars

-----------------------------------------------------------------------------
(* Specification of the pool under Next and NextHealthy calls while the      *)
(* health flags stay as the last probes left them.                           *)

InitFixedHealth ==
    /\ now = 0
    /\ allowRules = NilGroup
    /\ denyRules = NilGroup
    /\ trustedProxies = {}
    /\ counters = EmptyCounters
    /\ evalOut = NoEval
    /\ breaker = NewCircuitBreaker(DefaultCircuitBreakerConfig, 0)
    /\ allowOut = TRUE
    /\ failRun = 0
    /\ succRun = 0
    /\ backends \in SelectionPools
    /\ healthy \in [BackendNames -> BOOLEAN]
    /\ circuitBreaker = [b \in BackendNames |->
                            NewCircuitBreaker(DefaultCircuitBreakerConfig, 0)]
    /\ currentIdx = 0
    /\ proxying = [b \in BackendNames |-> 0]
    /\ retryOut = NoRetry
    /\ InitSel
    /\ InitRateIdle
    /\ InitAttributed
    /\ InitLate
    /\ InitLifeIdle
    /\ lastOp = Op("init")

NextFixedHealth == PoolCallNext \/ PoolCallNextHealthy

SpecFixedHealth == InitFixedHealth /\ [][NextFixedHealth]_vars

-----------------------------------------------------------------------------
(* Specification of the pool under NextWeighted calls, with Next calls of    *)
(* other callers and health changes in between.                              *)

\* the weights backends are configured with (0 is a backend left out of
\* weighted selection; negative weights are rejected by the configuration)
PoolWeights == {0, 1, 2}

\* largest number of selections made on one weighted pool
MaxWeightedPicks == 4

InitWeighted ==
    /\ now = 0
    /\ allowRules = NilGroup
    /\ denyRules = NilGroup
    /\ trustedProxies = {}
    /\ counters = EmptyCounters
    /\ evalOut = NoEval
    /\ breaker = NewCircuitBreaker(DefaultCircuitBreakerConfig, 0)
    /\ allowOut = TRUE
    /\ failRun = 0
    /\ succRun = 0
    /\ backends \in SamplePools
    /\ healthy = [b \in BackendNames |-> TRUE]
    /\ circuitBreaker = [b \in BackendNames |->
                            NewCircuitBreaker(DefaultCircuitBreakerConfig, 0)]
    /\ currentIdx = 0
    /\ proxying = [b \in BackendNames |-> 0]
    /\ retryOut = NoRetry
    /\ picks = <<>>
    /\ \E w \in [Members -> PoolWeights] :
          weight = [b \in BackendNames |-> IF b \in Members THEN w[b] ELSE 1]
    /\ InitRateIdle
    /\ InitAttributed
    /\ InitLate
    /\ InitLifeIdle
    /\ lastOp = Op("init")

\* a selection on the weighted pool made by the call named fn with result o,
\* recorded with the health flags the call found
SelectWeighted(fn, o) ==
    /\ Len(picks) < MaxWeightedPicks
    /\ currentIdx' = o.idx
    /\ picks' = IF o.backend = "" THEN picks
                ELSE Append(picks, [fn |-> fn, backend |-> o.backend, hl |-> healthy])
    /\ lastOp' = [Op(fn) EXCEPT !.backend = o.backend]
    /\ UNCHANGED <<now, engineVars, breakerVars, trustedProxies, backends, healthy,
                   circuitBreaker, proxying, retryOut, weight, rateVars, ipVars, lifeVars, lateVars>>

\* one call of Pool.NextWeighted
WeightedCallNextWeighted ==
    SelectWeighted("NextWeighted", NextWeighted(backends, currentIdx, healthy, weight))

\* one call of Pool.Next on the same pool
WeightedCallNext == SelectWeighted("Next", PoolNext(backends, currentIdx))

NextWeightedPool == WeightedCallNextWeighted \/ WeightedCallNext \/ SetHealthy

SpecWeighted == InitWeighted /\ [][NextWeightedPool]_vars

-----------------------------------------------------------------------------
(* Specification of one RateLimitRule evaluated by concurrent tasks.  A task *)
(* calls Evaluate, obtains r.mu, reads the clock and the client's counter,   *)
(* then updates the counter, returns its result and releases r.mu.           *)

\* largest number of Evaluate calls made on one rule
MaxEvals == 4

\* largest maxRequests a rule is constructed with
MaxRequestsArg == 2

\* the window of the rules, seconds
Windows == {20}

InitRate ==
    /\ now = 0
    /\ allowRules = NilGroup
    /\ denyRules = NilGroup
    /\ trustedProxies = {}
    /\ counters = EmptyCounters
    /\ evalOut = NoEval
    /\ breaker = NewCircuitBreaker(DefaultCircuitBreakerConfig, 0)
    /\ allowOut = TRUE
    /\ failRun = 0
    /\ succRun = 0
    /\ backends = <<>>
    /\ healthy = [b \in BackendNames |-> TRUE]
    /\ circuitBreaker = [b \in BackendNames |->
                            NewCircuitBreaker(DefaultCircuitBreakerConfig, 0)]
    /\ currentIdx = 0
    /\ proxying = [b \in BackendNames |-> 0]
    /\ retryOut = NoRetry
    /\ InitSel
    /\ \E n \in 1..MaxRequestsArg, w \in Windows : rule = NewRateLimitRule(n, w)
    /\ InitRateTasks
    /\ InitAttributed
    /\ InitLate
    /\ InitLifeIdle
    /\ lastOp = Op("init")

\* the variables a step of the rate-limit rule leaves alone
rateRest ==
    <<now, allowRules, denyRules, evalOut, breakerVars, trustedProxies, poolVars, proxying,
      retryOut, selVars, ipVars, lifeVars, lateVars, rule>>

\* the Evaluate calls begun and not completed
RateBusy == {k \in RateTasks : rateTask[k].pc # "idle"}

\* a task calls rule.Evaluate(ctx) for a client and waits for r.mu
RateCall ==
    \E k \in RateTasks, ip \in ClientIPs :
      /\ rateTask[k].pc = "idle"
      /\ Len(evals) + Cardinality(RateBusy) < MaxEvals
      /\ rateTask' = [rateTask EXCEPT ![k] = [IdleTask EXCEPT !.pc = "waiting", !.ip = ip]]
      /\ lastOp' = Op("RateCall")
      /\ UNCHANGED <<rateRest, counters, rateMu, evals>>

\* the task obtains r.mu and reads the clock and the client's counter
RateLock ==
    \E k \in RateTasks :
      /\ rateTask[k].pc = "waiting"
      /\ LockFree(rateMu)
      /\ rateMu' = k
      /\ rateTask' = [rateTask EXCEPT ![k].pc = "locked", ![k].t = now,
                                      ![k].counter = counters[rateTask[k].ip]]
      /\ lastOp' = Op("RateLock")
      /\ UNCHANGED <<rateRest, counters, evals>>

\* the task updates the counter it read, returns and releases r.mu
RateFinish ==
    \E k \in RateTasks :
      LET ip == rateTask[k].ip
          o == RateLimitEvaluate(rule, [ClientIP |-> ip, Method |-> "GET"],
                                 [counters EXCEPT ![ip] = rateTask[k].counter],
                                 rateTask[k].t)
      IN
      /\ rateTask[k].pc = "locked"
      /\ counters' = [counters EXCEPT ![ip] = o.cs[ip]]
      /\ evals' = Append(evals, [ip |-> ip, t |-> rateTask[k].t, matched |-> o.res.Matched,
                                 labels |-> o.res.Labels,
                                 found |-> rateTask[k].counter.exists,
                                 count |-> o.cs[ip].count, windowEnd |-> o.cs[ip].windowEnd])
      /\ rateMu' = ""
      /\ rateTask' = [rateTask EXCEPT ![k] = IdleTask]
      /\ lastOp' = Op("RateFinish")
      /\ UNCHANGED rateRest

\* the sweeper's ticker fires: under r.mu it deletes the expired entries
RateCleanup ==
    /\ LockFree(rateMu)
    /\ counters' = CleanupSweep(counters, now)
    /\ counters' # counters
    /\ lastOp' = Op("RateCleanup")
    /\ UNCHANGED <<rateRest, rateMu, rateTask, evals>>

NextRate == RateCall \/ RateLock \/ RateFinish \/ RateCleanup \/ Tick(FineSteps)

SpecRate == InitRate /\ [][NextRate]_vars

-----------------------------------------------------------------------------
(* Specification of a RateLimitRule with its cleanup goroutine: Evaluate     *)
(* calls, Stop calls and the sweeps contend for r.mu.                        *)

\* largest number of Stop calls on the rule
MaxRuleStops == 2

\* the variables a step of the cleanup goroutine or of Stop leaves alone
sweeperRest ==
    <<now, allowRules, denyRules, evalOut, breakerVars, trustedProxies, poolVars, proxying,
      retryOut, selVars, ipVars, lifeVars, reqVars, checker, rule, evals>>

InitSweeper ==
    /\ now = 0
    /\ allowRules = NilGroup
    /\ denyRules = NilGroup
    /\ trustedProxies = {}
    /\ counters = EmptyCounters
    /\ evalOut = NoEval
    /\ breaker = NewCircuitBreaker(DefaultCircuitBreakerConfig, 0)
    /\ allowOut = TRUE
    /\ failRun = 0
    /\ succRun = 0
    /\ backends = <<>>
    /\ healthy = [b \in BackendNames |-> TRUE]
    /\ circuitBreaker = [b \in BackendNames |->
                            NewCircuitBreaker(DefaultCircuitBreakerConfig, 0)]
    /\ currentIdx = 0
    /\ proxying = [b \in BackendNames |-> 0]
    /\ retryOut = NoRetry
    /\ InitSel
    /\ \E w \in Windows : rule = NewRateLimitRule(1, w)
    /\ InitRateTasks
    /\ InitAttributed
    /\ InitLate
    /\ InitLifeIdle
    /\ lastOp = Op("init")

\* rule.Stop(), holding r.mu from its first to its last statement
RuleStop ==
    /\ ~sweeper.panicked
    /\ sweeper.stops < MaxRuleStops
    /\ LockFree(rateMu)
    /\ sweeper' = [RateLimitStop(sweeper) EXCEPT !.stops = @ + 1]
    /\ lastOp' = [Op("RateLimitRule.Stop") EXCEPT
                     !.action = IF sweeper.stopped THEN "noop" ELSE "stopped"]
    /\ UNCHANGED <<sweeperRest, rateTask, counters, rateMu>>

\* the select of cleanup takes the ticker case and goes for r.mu
SweeperTick ==
    /\ ~sweeper.panicked
    /\ sweeper.pc = "select"
    /\ sweeper' = [sweeper EXCEPT !.pc = "locking"]
    /\ lastOp' = Op("sweeper.tick")
    /\ UNCHANGED <<sweeperRest, rateTask, counters, rateMu>>

\* cleanup obtains r.mu
SweeperLock ==
    /\ ~sweeper.panicked
    /\ sweeper.pc = "locking"
    /\ LockFree(rateMu)
    /\ rateMu' = "sweeper"
    /\ sweeper' = [sweeper EXCEPT !.pc = "sweeping"]
    /\ lastOp' = Op("sweeper.lock")
    /\ UNCHANGED <<sweeperRest, rateTask, counters>>

\* cleanup deletes the expired counters, releases r.mu and is back at its select
SweeperSweep ==
    /\ ~sweeper.panicked
    /\ sweeper.pc = "sweeping"
    /\ counters' = CleanupSweep(counters, now)
    /\ rateMu' = ""
    /\ sweeper' = [sweeper EXCEPT !.pc = "select",
                                  !.sweptAfterStop = @ \/ sweeper.stopClosed]
    /\ lastOp' = Op("sweeper.sweep")
    /\ UNCHANGED <<sweeperRest, rateTask>>

\* the select of cleanup takes the closed stopChan and the goroutine returns
SweeperStopSeen ==
    /\ ~sweeper.panicked
    /\ sweeper.pc = "select"
    /\ sweeper.stopClosed
    /\ sweeper' = [sweeper EXCEPT !.pc = "exited"]
    /\ lastOp' = Op("sweeper.exit")
    /\ UNCHANGED <<sweeperRest, rateTask, counters, rateMu>>

\* a request's rule.Evaluate(ctx) obtains r.mu and reads the clock and the
\* client's counter
EvaluateLock ==
    \E k \in RateTasks, ip \in ClientIPs :
      /\ ~sweeper.panicked
      /\ LockFree(rateMu)
      /\ counters[ip].count < MaxCount
      /\ rateMu' = k
      /\ rateTask' = [rateTask EXCEPT ![k] = [pc |-> "locked", ip |-> ip, t |-> now,
                                              counter |-> counters[ip]]]
      /\ lastOp' = Op("Evaluate.lock")
      /\ UNCHANGED <<sweeperRest, sweeper, counters>>

\* the Evaluate call updates the counter, returns and releases r.mu
EvaluateFinish ==
    \E k \in RateTasks :
      LET ip == rateTask[k].ip
          o == RateLimitEvaluate(rule, [ClientIP |-> ip, Method |-> "GET"], counters,
                                 rateTask[k].t)
      IN
      /\ ~sweeper.panicked
      /\ rateTask[k].pc = "locked"
      /\ counters' = o.cs
      /\ rateMu' = ""
      /\ rateTask' = [rateTask EXCEPT ![k] = IdleTask]
      /\ lastOp' = Op("Evaluate")
      /\ UNCHANGED <<sweeperRest, sweeper>>

NextSweeper ==
    \/ RuleStop \/ SweeperTick \/ SweeperLock \/ SweeperSweep \/ SweeperStopSeen
    \/ EvaluateLock \/ EvaluateFinish \/ Tick(CoarseSteps)

SpecSweeper == InitSweeper /\ [][NextSweeper]_vars

\* the scheduler runs a goroutine that can run, a mutex that is free again
\* and again is obtained, and the select of cleanup, choosing at random among
\* its ready cases, takes the closed stopChan sooner or later
SpecSweeperLive ==
    /\ SpecSweeper
    /\ SF_vars(SweeperStopSeen)
    /\ SF_vars(SweeperLock)
    /\ WF_vars(SweeperSweep)
    /\ WF_vars(EvaluateFinish)

-----------------------------------------------------------------------------
(* Specification of client IP attribution: Handler.extractClientIP applied   *)
(* to the requests of arbitrary peers                                        *)

\* largest number of calls kept in attributed
MaxAttributed == 2

\* the addresses a connection comes from: the clients and a proxy
PeerIPs == ClientIPs \cup {"192.168.1.1"}

\* the requests of the peers
PeerRequests ==
    [RemoteAddr : PeerIPs, XFF : XFFs, XRealIP : {""} \cup ClientIPs, Method : Methods]

InitClientIP ==
    /\ now = 0
    /\ allowRules = NilGroup
    /\ denyRules = NilGroup
    /\ trustedProxies \in SUBSET PeerIPs
    /\ counters = EmptyCounters
    /\ evalOut = NoEval
    /\ breaker = NewCircuitBreaker(DefaultCircuitBreakerConfig, 0)
    /\ allowOut = TRUE
    /\ failRun = 0
    /\ succRun = 0
    /\ backends = <<>>
    /\ healthy = [b \in BackendNames |-> TRUE]
    /\ circuitBreaker = [b \in BackendNames |->
                            NewCircuitBreaker(DefaultCircuitBreakerConfig, 0)]
    /\ currentIdx = 0
    /\ proxying = [b \in BackendNames |-> 0]
    /\ retryOut = NoRetry
    /\ InitSel
    /\ InitRateIdle
    /\ InitAttributed
    /\ InitLate
    /\ InitLifeIdle
    /\ lastOp = Op("init")

\* one call of Handler.extractClientIP
ExtractClientIP ==
    \E r \in PeerRequests :
      /\ Len(attributed) < MaxAttributed
      /\ attributed' = Append(attributed,
                              [r |-> r, clientIP |-> extractClientIP(trustedProxies, r)])
      /\ lastOp' = Op("extractClientIP")
      /\ UNCHANGED <<now, engineVars, breakerVars, trustedProxies, poolVars, proxying,
                     retryOut, selVars, rateVars, lifeVars, lateVars>>

NextClientIP == ExtractClientIP

SpecClientIP == InitClientIP /\ [][NextClientIP]_vars

-----------------------------------------------------------------------------
(* Specification of one HTTPListener: connections come and go, requests are  *)
(* served, and some caller stops the listener with a budget.                 *)

\* the shutdown budgets a caller gives Stop, seconds
StopBudgets == {AdminStopBudget, ProfileStopBudget}

\* the clock is observed every 5 seconds while a listener is followed
ShutdownSteps == {AdminStopBudget}

\* the variables a step of the listener or of main() leaves alone
lifeRest ==
    <<now, engineVars, breakerVars, trustedProxies, poolVars, proxying, retryOut,
      selVars, rateVars, ipVars, lateVars>>

\* the state every component but main() and the listener starts in
InitLifeRest ==
    /\ now = 0
    /\ allowRules = NilGroup
    /\ denyRules = NilGroup
    /\ trustedProxies = {}
    /\ counters = EmptyCounters
    /\ evalOut = NoEval
    /\ breaker = NewCircuitBreaker(DefaultCircuitBreakerConfig, 0)
    /\ allowOut = TRUE
    /\ failRun = 0
    /\ succRun = 0
    /\ backends = <<>>
    /\ healthy = [b \in BackendNames |-> TRUE]
    /\ circuitBreaker = [b \in BackendNames |->
                            NewCircuitBreaker(DefaultCircuitBreakerConfig, 0)]
    /\ currentIdx = 0
    /\ proxying = [b \in BackendNames |-> 0]
    /\ retryOut = NoRetry
    /\ InitSel
    /\ InitRateIdle
    /\ InitAttributed
    /\ InitLate
    /\ lastOp = Op("init")

InitListener ==
    /\ InitLifeRest
    /\ proc = StartedMain(NoAdmin)
    /\ ln = NewHTTPListener

\* HTTPListener.Start
LnStart ==
    /\ ln.state = "new"
    /\ ln.stop.pc = "none"
    /\ ln' = ListenerStart(ln)
    /\ lastOp' = Op("Start")
    /\ UNCHANGED <<lifeRest, proc>>

\* a client connects and sends a request
LnAccept ==
    \E c \in ConnIds :
      /\ Accepting(ln)
      /\ ln.conns[c] = "none"
      /\ ln' = ListenerAccept(ln, c)
      /\ lastOp' = [Op("Accept") EXCEPT !.backend = c]
      /\ UNCHANGED <<lifeRest, proc>>

\* the handler of a request in flight returns
LnRequestDone ==
    \E c \in ConnIds :
      /\ ln.conns[c] = "active"
      /\ ln' = ListenerRequestDone(ln, c)
      /\ lastOp' = [Op("RequestDone") EXCEPT !.backend = c]
      /\ UNCHANGED <<lifeRest, proc>>

\* a kept-alive connection carries another request
LnNextRequest ==
    \E c \in ConnIds :
      /\ ln.state = "serving"
      /\ ln.conns[c] = "idle"
      /\ ln' = [ln EXCEPT !.conns[c] = "active"]
      /\ lastOp' = [Op("NextRequest") EXCEPT !.backend = c]
      /\ UNCHANGED <<lifeRest, proc>>

\* the client closes a kept-alive connection
LnConnClosed ==
    \E c \in ConnIds :
      /\ ln.conns[c] = "idle"
      /\ ln' = ListenerConnClosed(ln, c)
      /\ lastOp' = [Op("ConnClosed") EXCEPT !.backend = c]
      /\ UNCHANGED <<lifeRest, proc>>

\* a caller calls listener.Stop(ctx) with a budget
LnStop ==
    \E budget \in StopBudgets :
      /\ ln.stop.pc = "none"
      /\ ln' = ListenerStopBegin(ln, now, budget)
      /\ lastOp' = Op("Stop")
      /\ UNCHANGED <<lifeRest, proc>>

\* listener.Stop returns to its caller
LnStopReturn ==
    /\ ListenerStopCanReturn(ln, now)
    /\ ln' = ListenerStopReturn(ln, now)
    /\ lastOp' = Op("StopReturn")
    /\ UNCHANGED <<lifeRest, proc>>

NextListener ==
    \/ LnStart \/ LnAccept \/ LnRequestDone \/ LnNextRequest \/ LnConnClosed
    \/ LnStop \/ LnStopReturn \/ Tick(ShutdownSteps)

SpecListener == InitListener /\ [][NextListener]_vars

-----------------------------------------------------------------------------
(* Specification of the process: main() has started the health checkers, the *)
(* admin API and the listener, serves, and shuts down on a signal.           *)

\* the signals main() waits for
Signals == {"SIGHUP", "SIGINT", "SIGTERM"}

InitMain ==
    /\ InitLifeRest
    /\ \E admin \in {StartedAdmin, NoAdmin} : proc = StartedMain(admin)
    /\ ln = ListenerStart(NewHTTPListener)

\* a signal arrives: SIGHUP re-validates the configuration, SIGINT and
\* SIGTERM start the shutdown
MainSignal ==
    \E sig \in Signals :
      /\ proc.pc = "running"
      /\ proc' = IF sig = "SIGHUP" THEN proc ELSE [proc EXCEPT !.pc = MainAfter("signal")]
      /\ lastOp' = [Op("Signal") EXCEPT !.action = sig]
      /\ UNCHANGED <<lifeRest, ln>>

\* the loop over healthCheckers: checker.Stop() on the next one
MainStopChecker ==
    /\ proc.pc = "stopCheckers"
    /\ LET i == proc.next IN
       proc' = [proc EXCEPT !.checkers[i] = HealthCheckerStop(proc.checkers[i]),
                            !.next = i + 1,
                            !.pc = IF i = Len(CheckerIds) THEN MainAfter("stopCheckers")
                                   ELSE "stopCheckers"]
    /\ lastOp' = Op("checker.Stop")
    /\ UNCHANGED <<lifeRest, ln>>

\* adminAPI.Stop(ctx) with its 5 s budget is called, if there is an admin API
MainAdminStop ==
    /\ proc.pc = "stopAdmin"
    /\ proc' = IF proc.admin.configured
               THEN [proc EXCEPT !.pc = "waitAdmin", !.admin.state = "draining",
                                 !.admin.deadline = now + AdminStopBudget]
               ELSE [proc EXCEPT !.pc = MainAfter("stopAdmin")]
    /\ lastOp' = Op("adminAPI.Stop")
    /\ UNCHANGED <<lifeRest, ln>>

\* adminAPI.Stop returns: no request is being served, or the budget is spent
MainAdminStopReturn ==
    /\ proc.pc = "waitAdmin"
    /\ ~proc.admin.busy \/ now >= proc.admin.deadline
    /\ proc' = [proc EXCEPT !.pc = MainAfter("stopAdmin"), !.admin.state = "shutdown",
                            !.admin.returnedAt = now]
    /\ lastOp' = Op("adminAPI.StopReturn")
    /\ UNCHANGED <<lifeRest, ln>>

\* profileMgr.Stop(ctx): the listener is stopped with the drain budget
MainProfilesStop ==
    /\ proc.pc = "stopProfiles"
    /\ ln' = ProfileManagerStop(ln, now, ProfileStopBudget)
    /\ proc' = [proc EXCEPT !.pc = "waitProfiles"]
    /\ lastOp' = Op("profileMgr.Stop")
    /\ UNCHANGED lifeRest

\* profileMgr.Stop returns
MainProfilesStopReturn ==
    /\ proc.pc = "waitProfiles"
    /\ ln.stop.pc = "returned" \/ ListenerStopCanReturn(ln, now)
    /\ ln' = IF ln.stop.pc = "returned" THEN ln ELSE ListenerStopReturn(ln, now)
    /\ proc' = [proc EXCEPT !.pc = MainAfter("stopProfiles")]
    /\ lastOp' = Op("profileMgr.StopReturn")
    /\ UNCHANGED lifeRest

\* os.Exit(0): the process and all its connections are gone
MainExit ==
    /\ proc.pc = "exiting"
    /\ proc' = [proc EXCEPT !.pc = "exited", !.admin.busy = FALSE,
                            !.checkers = [i \in 1..Len(CheckerIds) |->
                                            [proc.checkers[i] EXCEPT !.loop = "exited"]]]
    /\ ln' = [ln EXCEPT !.conns = [c \in ConnIds |->
                                     IF c \in OpenConns(ln) THEN "closed" ELSE ln.conns[c]],
                        !.activeConns = 0]
    /\ lastOp' = Op("os.Exit")
    /\ UNCHANGED lifeRest

\* the goroutine of a health checker: its ticker fires and checkAll begins,
\* checkAll ends, or it sees the closed stop channel and returns
ProberStep ==
    \E i \in 1..Len(CheckerIds) :
      LET hc == proc.checkers[i] IN
      /\ proc.pc # "exited"
      /\ \/ hc.loop = "ticking" /\ proc' = [proc EXCEPT !.checkers[i].loop = "checking"]
         \/ hc.loop = "checking" /\ proc' = [proc EXCEPT !.checkers[i].loop = "ticking"]
         \/ hc.loop = "ticking" /\ hc.stopClosed
               /\ proc' = [proc EXCEPT !.checkers[i].loop = "exited"]
      /\ lastOp' = Op("prober")
      /\ UNCHANGED <<lifeRest, ln>>

\* a request to the admin API begins or ends
AdminRequest ==
    /\ proc.admin.configured
    /\ proc.pc # "exited"
    /\ \/ proc.admin.state = "serving" /\ ~proc.admin.busy
             /\ proc' = [proc EXCEPT !.admin.busy = TRUE]
       \/ proc.admin.busy /\ proc' = [proc EXCEPT !.admin.busy = FALSE]
    /\ lastOp' = Op("adminRequest")
    /\ UNCHANGED <<lifeRest, ln>>

\* a Stop that waits has reached its deadline and returns next
StopDue ==
    \/ proc.pc = "waitAdmin" /\ now >= proc.admin.deadline
    \/ proc.pc = "waitProfiles" /\ ln.stop.pc = "waiting" /\ now >= ln.stop.deadline

\* time passes, up to the deadline of the Stop main() waits in
MainTick == ~StopDue /\ proc.pc # "exited" /\ Tick(ShutdownSteps)

NextMain ==
    \/ MainSignal \/ MainStopChecker \/ MainAdminStop \/ MainAdminStopReturn
    \/ MainProfilesStop \/ MainProfilesStopReturn \/ MainExit
    \/ ProberStep \/ AdminRequest
    \/ LnAccept \/ LnRequestDone \/ LnNextRequest \/ LnConnClosed
    \/ MainTick

SpecMain == InitMain /\ [][NextMain]_vars

-----------------------------------------------------------------------------
(* Specification of the handler serving requests concurrently, the decision *)
(* of each request ranging over every decision.Action.                       *)

\* the variables a step of a request leaves alone
reqRest ==
    <<now, engineVars, breakerVars, trustedProxies, backends, healthy, proxying, retryOut,
      selVars, rateVars, ipVars, lifeVars, checker, sweeper>>

InitRequest ==
    /\ now = 0
    /\ allowRules = NilGroup
    /\ denyRules = NilGroup
    /\ trustedProxies = {}
    /\ counters = EmptyCounters
    /\ evalOut = NoEval
    /\ breaker = NewCircuitBreaker(DefaultCircuitBreakerConfig, 0)
    /\ allowOut = TRUE
    /\ failRun = 0
    /\ succRun = 0
    /\ backends \in { <<>>, <<"b1">> }
    /\ healthy = [b \in BackendNames |-> TRUE]
    /\ circuitBreaker = [b \in BackendNames |->
                            NewCircuitBreaker(DefaultCircuitBreakerConfig, 0)]
    /\ currentIdx = 0
    /\ proxying = [b \in BackendNames |-> 0]
    /\ retryOut = NoRetry
    /\ InitSel
    /\ InitRateIdle
    /\ InitAttributed
    /\ InitLifeIdle
    /\ InitCheckerIdle
    /\ InitSweeperIdle
    /\ handling = [g \in HandlerGoroutines |-> IdleHandling]
    /\ \E m \in BOOLEAN : metrics = NewMetrics(m)
    /\ \E l \in BOOLEAN : requestLog = NewLogger(l)
    /\ lastOp = Op("init")

\* ServeHTTP is entered: the request ID is read or generated and stamped on
\* the response and on the request, and the engine returns its decision
ReqArrive ==
    \E i \in HandlerGoroutines, header \in ClientRequestIDs, buffer \in RandomBuffers,
       action \in Actions :
      /\ handling[i].pc = "idle"
      /\ header # "" => buffer = [k \in 1..RequestIDBytes |-> 0]
      /\ handling' = [handling EXCEPT ![i] =
                         NewHandling(header, StampRequestID(header, buffer), action)]
      /\ lastOp' = [Op("ReqArrive") EXCEPT !.action = action]
      /\ UNCHANGED <<reqRest, circuitBreaker, currentIdx, metrics, requestLog>>

\* the switch on d.Action: the request is forwarded, or answered, or dropped
ReqDispatch ==
    \E i \in HandlerGoroutines, outcome \in UpstreamOutcomes, echo \in UpstreamRequestIDs :
      LET h == handling[i]
          nh == NextHealthy(backends, currentIdx, healthy)
          b == nh.backend
          pc2 == IF ReturnsBeforeMetrics(h.action) THEN "done" ELSE "metrics"
      IN
      /\ h.pc = "dispatch"
      /\ IF h.action = "AllowForward" /\ b # ""
         THEN LET o == BackendServeHTTP(circuitBreaker[b], outcome, now)
                  answered == o.contacted /\ outcome.kind = "response"
              IN
              /\ (~answered \/ outcome.status # 200) => echo = ""
              /\ currentIdx' = nh.idx
              /\ circuitBreaker' = [circuitBreaker EXCEPT ![b] = o.cb]
              /\ handling' = [handling EXCEPT ![i] =
                    [h EXCEPT !.pc = pc2, !.responded = TRUE, !.contacted = o.contacted,
                              !.received = IF o.contacted THEN h.reqHeader ELSE "",
                              !.respHeader = IF answered /\ echo # ""
                                             THEN Append(h.respHeader, echo)
                                             ELSE h.respHeader,
                              !.statusCode = 200]]
         ELSE /\ outcome.kind = "error" /\ echo = ""
              /\ currentIdx' = IF h.action = "AllowForward" THEN nh.idx ELSE currentIdx
              /\ circuitBreaker' = circuitBreaker
              /\ handling' = [handling EXCEPT ![i] =
                    [h EXCEPT !.pc = pc2, !.responded = (h.action # "Drop"),
                              !.statusCode = IF h.action = "AllowForward" THEN 502
                                             ELSE NotedStatus(h.action)]]
      /\ lastOp' = [Op("ReqDispatch") EXCEPT !.action = h.action]
      /\ UNCHANGED <<reqRest, metrics, requestLog>>

\* h.metrics.RecordRequest, if there is a metrics object
ReqRecord ==
    \E i \in HandlerGoroutines :
      LET h == handling[i] IN
      /\ h.pc = "metrics"
      /\ metrics' = IF metrics.configured
                    THEN RecordRequest(metrics, ActionString(h.action)) ELSE metrics
      /\ handling' = [handling EXCEPT ![i].pc = "log",
                                      ![i].counted = IF metrics.configured THEN @ + 1 ELSE @]
      /\ lastOp' = [Op("ReqRecord") EXCEPT !.action = h.action]
      /\ UNCHANGED <<reqRest, circuitBreaker, currentIdx, requestLog>>

\* h.logger.LogRequest, if there is a logger, and ServeHTTP returns
ReqLog ==
    \E i \in HandlerGoroutines :
      LET h == handling[i] IN
      /\ h.pc = "log"
      /\ requestLog' = IF requestLog.configured
                       THEN [requestLog EXCEPT !.records = Append(@,
                               [req |-> i, RequestID |-> h.requestID,
                                Action |-> ActionString(h.action),
                                StatusCode |-> h.statusCode, counted |-> h.counted])]
                       ELSE requestLog
      /\ handling' = [handling EXCEPT ![i].pc = "done"]
      /\ lastOp' = [Op("ReqLog") EXCEPT !.action = h.action]
      /\ UNCHANGED <<reqRest, circuitBreaker, currentIdx, metrics>>

NextRequest == ReqArrive \/ ReqDispatch \/ ReqRecord \/ ReqLog

SpecRequest == InitRequest /\ [][NextRequest]_vars

-----------------------------------------------------------------------------
(* Specification of one HealthChecker: Start and Stop calls from outside,    *)
(* and the threads that run checkAll over the pool.                          *)

\* largest number of Start calls
MaxStarts == 2

\* largest number of Stop calls
MaxStops == 3

\* the variables a step of the checker leaves alone
checkerRest ==
    <<now, engineVars, breakerVars, trustedProxies, backends, circuitBreaker, currentIdx,
      proxying, retryOut, selVars, rateVars, ipVars, lifeVars, reqVars, sweeper>>

InitChecker ==
    /\ now = 0
    /\ allowRules = NilGroup
    /\ denyRules = NilGroup
    /\ trustedProxies = {}
    /\ counters = EmptyCounters
    /\ evalOut = NoEval
    /\ breaker = NewCircuitBreaker(DefaultCircuitBreakerConfig, 0)
    /\ allowOut = TRUE
    /\ failRun = 0
    /\ succRun = 0
    /\ backends \in { <<"b1">>, <<"b1", "b2">> }
    /\ healthy = [b \in BackendNames |-> TRUE]
    /\ circuitBreaker = [b \in BackendNames |->
                            NewCircuitBreaker(DefaultCircuitBreakerConfig, 0)]
    /\ currentIdx = 0
    /\ proxying = [b \in BackendNames |-> 0]
    /\ retryOut = NoRetry
    /\ InitSel
    /\ InitRateIdle
    /\ InitAttributed
    /\ InitLifeIdle
    /\ InitReqIdle
    /\ InitSweeperIdle
    /\ checker = IdleChecker
    /\ lastOp = Op("init")

\* hc.Start(): a checker that was not running begins its initial checkAll
CheckerStart ==
    /\ ~checker.hc.panicked
    /\ checker.starts < MaxStarts
    /\ checker' = [checker EXCEPT
                      !.hc = HealthCheckerStart(checker.hc),
                      !.starts = @ + 1,
                      !.loops = IF checker.hc.running THEN @ ELSE Append(@, NewLoop(backends))]
    /\ lastOp' = [Op("HealthChecker.Start") EXCEPT
                     !.action = IF checker.hc.running THEN "noop" ELSE "started"]
    /\ UNCHANGED <<checkerRest, healthy>>

\* hc.Stop()
CheckerStop ==
    /\ ~checker.hc.panicked
    /\ checker.stops < MaxStops
    /\ checker' = [checker EXCEPT
                      !.hc = HealthCheckerStop(checker.hc),
                      !.stops = @ + 1,
                      !.stoppedFresh = @ \/ checker.starts = 0]
    /\ lastOp' = [Op("HealthChecker.Stop") EXCEPT
                     !.action = IF checker.hc.running THEN "stopped" ELSE "noop"]
    /\ UNCHANGED <<checkerRest, healthy>>

\* the select of the goroutine: the ticker has fired and checkAll begins
LoopTick ==
    \E g \in 1..Len(checker.loops) :
      /\ ~checker.hc.panicked
      /\ checker.loops[g].pc = "ticking"
      /\ Len(backends) > 0
      /\ checker' = [checker EXCEPT !.loops[g].pc = "checking", !.loops[g].pos = 1]
      /\ lastOp' = Op("ticker")
      /\ UNCHANGED <<checkerRest, healthy>>

\* the select of the goroutine: hc.stop is closed and the goroutine returns
LoopStopSeen ==
    \E g \in 1..Len(checker.loops) :
      /\ ~checker.hc.panicked
      /\ checker.loops[g].pc = "ticking"
      /\ checker.hc.stopClosed
      /\ checker' = [checker EXCEPT !.loops[g].pc = "exited"]
      /\ lastOp' = Op("stopSeen")
      /\ UNCHANGED <<checkerRest, healthy>>

\* hc.check(b): the probe request of the backend checkAll is at is sent
ProbeIssue ==
    \E g \in 1..Len(checker.loops) :
      LET l == checker.loops[g] IN
      /\ ~checker.hc.panicked
      /\ l.pc = "checking" /\ ~l.inflight
      /\ checker' = [checker EXCEPT !.loops[g].inflight = TRUE,
                                    !.issuedAfterStop = @ \/ checker.hc.stopClosed]
      /\ lastOp' = [Op("probe") EXCEPT !.backend = backends[l.pos]]
      /\ UNCHANGED <<checkerRest, healthy>>

\* hc.check(b) returns and b.SetHealthy records the result; checkAll goes on
\* to the next backend or returns
ProbeResult ==
    \E g \in 1..Len(checker.loops), result \in BOOLEAN :
      LET l == checker.loops[g]
          b == backends[l.pos]
      IN
      /\ ~checker.hc.panicked
      /\ l.pc = "checking" /\ l.inflight
      /\ healthy' = [healthy EXCEPT ![b] = result]
      /\ checker' = [checker EXCEPT
                        !.loops[g] = IF l.pos = Len(backends)
                                     THEN [pc |-> "ticking", pos |-> 1, inflight |-> FALSE]
                                     ELSE [pc |-> "checking", pos |-> l.pos + 1,
                                           inflight |-> FALSE],
                        !.updatedAfterStop = @ \/ checker.hc.stopClosed]
      /\ lastOp' = [Op("SetHealthy") EXCEPT !.backend = b]
      /\ UNCHANGED checkerRest

NextChecker ==
    CheckerStart \/ CheckerStop \/ LoopTick \/ LoopStopSeen \/ ProbeIssue \/ ProbeResult

SpecChecker == InitChecker /\ [][NextChecker]_vars

-----------------------------------------------------------------------------
(* Claims about the decision engine *)

\* what the deny group answers for the request of the step, on the counters
\* the step starts from
DenyAnswer(ctx) == EvaluateGroup(denyRules, ctx, counters, now).res

\* what the allow group answers for the request of the step
AllowAnswer(ctx) == EvaluateGroup(allowRules, ctx, counters, now).res

\* C1: whenever the deny group is configured and matches the request,
\* Engine.Evaluate returns DenyDecoy with the deny group's reason and labels,
\* whatever the allow group is
C1_DenyPrecedence ==
    [][ (lastOp'.op = "Evaluate" /\ ~denyRules.isNil /\ DenyAnswer(evalOut'.ctx).Matched)
        => evalOut'.d = Decision("DenyDecoy", DenyAnswer(evalOut'.ctx).Reason,
                                 DenyAnswer(evalOut'.ctx).Labels) ]_vars

\* a request was denied by a matching deny group although the allow group
\* matches it
C1_Witness ==
    /\ evalOut.called
    /\ evalOut.denyEvaluated /\ evalOut.denyRes.Matched
    /\ evalOut.d.Action = "DenyDecoy"
    /\ allowRules.Single.type = "ip_allow"
    /\ evalOut.ctx.ClientIP \in allowRules.Single.cidrs

\* C2 as stated: whenever the allow group is configured and does not match,
\* the decision is DenyDecoy labelled default-deny
C2_Original ==
    [][ (lastOp'.op = "Evaluate" /\ ~allowRules.isNil /\ ~AllowAnswer(evalOut'.ctx).Matched)
        => (evalOut'.d.Action = "DenyDecoy" /\ evalOut'.d.Labels = <<"default-deny">>) ]_vars

\* C2 amended: whenever the allow group is configured and does not match the
\* request, the action is DenyDecoy; the reason "no allow rules matched" and
\* the label default-deny are returned when the deny group is absent or does
\* not match, and the deny group's reason and labels when it matches
C2_DefaultDeny ==
    [][ (lastOp'.op = "Evaluate" /\ ~allowRules.isNil /\ ~AllowAnswer(evalOut'.ctx).Matched)
        => /\ evalOut'.d.Action = "DenyDecoy"
           /\ (denyRules.isNil \/ ~DenyAnswer(evalOut'.ctx).Matched)
                 => evalOut'.d = Decision("DenyDecoy", Reason("no allow rules matched"),
                                          <<"default-deny">>)
           /\ (~denyRules.isNil /\ DenyAnswer(evalOut'.ctx).Matched)
                 => (evalOut'.d.Reason = DenyAnswer(evalOut'.ctx).Reason
                     /\ evalOut'.d.Labels = DenyAnswer(evalOut'.ctx).Labels) ]_vars

\* a request was refused by a configured allow group that did not match it,
\* after a configured deny group did not match either
C2_Witness ==
    /\ evalOut.called
    /\ evalOut.allowEvaluated /\ ~evalOut.allowRes.Matched
    /\ evalOut.denyEvaluated /\ ~evalOut.denyRes.Matched
    /\ evalOut.d.Labels = <<"default-deny">>


-----------------------------------------------------------------------------
(* Claims about the circuit breaker *)

\* C4: counted from Closed with zero consecutive failures, the breaker opens
\* at the RecordFailure that completes failure_threshold failures with no
\* RecordSuccess between them and stays Closed before that; a RecordSuccess
\* while Closed puts the consecutive-failure count back to zero
C4_OpensAtThreshold ==
    /\ [](breaker.state = CircuitClosed =>
            (failRun < breaker.config.FailureThreshold /\ breaker.failures = failRun))
    /\ [][ (lastOp'.op = "RecordFailure" /\ breaker.state = CircuitClosed)
            => /\ breaker'.state \in {CircuitClosed, CircuitOpen}
               /\ (breaker'.state = CircuitOpen
                      <=> failRun' = breaker.config.FailureThreshold) ]_vars
    /\ [][ (lastOp'.op = "RecordSuccess" /\ breaker.state = CircuitClosed)
            => (breaker'.state = CircuitClosed /\ breaker'.failures = 0) ]_vars

\* the breaker has just been opened by the last of three consecutive failures
C4_Witness ==
    /\ lastOp.op = "RecordFailure"
    /\ breaker.state = CircuitOpen
    /\ breaker.config.FailureThreshold = 3
    /\ failRun = 3

\* C5: an Allow() on an Open breaker returns false and changes nothing while
\* less than timeout has passed since the last state change; once timeout has
\* passed it returns true and leaves the breaker HalfOpen with zero successes
C5_OpenRejectsUntilTimeout ==
    [][ (lastOp'.op = "Allow" /\ breaker.state = CircuitOpen)
        => IF now - breaker.lastStateChange < breaker.config.Timeout
           THEN allowOut' = FALSE /\ breaker' = breaker
           ELSE /\ allowOut' = TRUE
                /\ breaker'.state = CircuitHalfOpen
                /\ breaker'.successes = 0 ]_vars

\* an Allow() made exactly timeout after the breaker opened was admitted and
\* moved the breaker to HalfOpen
C5_Witness ==
    /\ lastOp.op = "Allow"
    /\ allowOut
    /\ breaker.state = CircuitHalfOpen
    /\ breaker.lastStateChange = now
    /\ now = breaker.config.Timeout

\* C6: in HalfOpen one RecordFailure opens the breaker; a RecordSuccess closes
\* it exactly when it is the success_threshold-th success since HalfOpen was
\* entered, and before that the breaker stays HalfOpen
C6_HalfOpenTransitions ==
    /\ [](breaker.state = CircuitHalfOpen => succRun < breaker.config.SuccessThreshold)
    /\ [][ (lastOp'.op = "RecordFailure" /\ breaker.state = CircuitHalfOpen)
            => breaker'.state = CircuitOpen ]_vars
    /\ [][ (lastOp'.op = "RecordSuccess" /\ breaker.state = CircuitHalfOpen)
            => /\ breaker'.state \in {CircuitHalfOpen, CircuitClosed}
               /\ (breaker'.state = CircuitClosed
                      <=> succRun' = breaker.config.SuccessThreshold) ]_vars
    /\ [][ (breaker.state = CircuitHalfOpen /\ breaker'.state # CircuitHalfOpen)
            => lastOp'.op \in {"RecordFailure", "RecordSuccess", "Reset"} ]_vars

\* a half-open breaker has just been closed by its third success
C6_Witness ==
    /\ lastOp.op = "RecordSuccess"
    /\ breaker.state = CircuitClosed
    /\ breaker.config.SuccessThreshold = 3
    /\ succRun = 3

-----------------------------------------------------------------------------
(* Claims about the gateway handler and Backend.ServeHTTP *)

\* C3: a request whose decision is DenyDecoy is answered by the decoy
\* strategy and no backend is selected or dispatched to: the pool cursor, the
\* circuit breakers and the requests at the upstreams are as before; a backend
\* is selected only by a request whose decision is AllowForward
C3_DecoyTouchesNoBackend ==
    [][ (lastOp'.op = "ServeHTTP")
        => /\ (lastOp'.action = "DenyDecoy")
                => /\ lastOp'.decoy
                   /\ lastOp'.backend = ""
                   /\ ~lastOp'.contacted
                   /\ currentIdx' = currentIdx
                   /\ circuitBreaker' = circuitBreaker
                   /\ proxying' = proxying
           /\ (lastOp'.backend # "" \/ currentIdx' # currentIdx
                  \/ circuitBreaker' # circuitBreaker \/ proxying' # proxying)
                => lastOp'.action = "AllowForward" ]_vars

\* a request was answered by the decoy while the pool had already been used
\* and a request was being proxied
C3_Witness ==
    /\ lastOp.op = "ServeHTTP"
    /\ lastOp.action = "DenyDecoy"
    /\ lastOp.decoy
    /\ Len(backends) = 2
    /\ currentIdx > 0
    /\ Inflight > 0

\* C7: Backend.ServeHTTP on a breaker whose Allow() is false writes 503, does
\* not contact the upstream and records nothing (breaker unchanged); on a
\* breaker whose Allow() is true it proxies the request, and when the proxied
\* call returns it records one outcome: a failure for a status of 500 or
\* more, a success otherwise
C7_AllowProxyRecord ==
    [][ /\ (lastOp'.op = "ServeHTTP" /\ lastOp'.backend # "")
            => LET b == lastOp'.backend
                   a == Allow(circuitBreaker[b], now)
               IN /\ ~a.ok => /\ lastOp'.status = 503
                              /\ ~lastOp'.contacted
                              /\ lastOp'.recorded = ""
                              /\ circuitBreaker' = circuitBreaker
                              /\ proxying' = proxying
                  /\ a.ok => /\ lastOp'.contacted
                             /\ lastOp'.recorded = ""
                             /\ proxying' = [proxying EXCEPT ![b] = proxying[b] + 1]
                             /\ circuitBreaker' = [circuitBreaker EXCEPT ![b] = a.cb]
        /\ (lastOp'.op = "ProxyReturn")
            => LET b == lastOp'.backend IN
               /\ proxying' = [proxying EXCEPT ![b] = proxying[b] - 1]
               /\ lastOp'.status >= 500
                    => /\ lastOp'.recorded = "failure"
                       /\ circuitBreaker' = [circuitBreaker EXCEPT
                                                ![b] = RecordFailure(circuitBreaker[b], now)]
               /\ lastOp'.status < 500
                    => /\ lastOp'.recorded = "success"
                       /\ circuitBreaker' = [circuitBreaker EXCEPT
                                                ![b] = RecordSuccess(circuitBreaker[b], now)] ]_vars

\* a request was answered 503 by a backend whose breaker the recorded
\* failures of earlier requests had opened
C7_Witness ==
    /\ lastOp.op = "ServeHTTP"
    /\ lastOp.backend # ""
    /\ lastOp.status = 503
    /\ ~lastOp.contacted
    /\ circuitBreaker[lastOp.backend].state = CircuitOpen
    /\ circuitBreaker[lastOp.backend].failures >= DefaultCircuitBreakerConfig.FailureThreshold

\* C10: a request whose decision is AllowForward is dispatched to a backend
\* that is healthy and whose circuit is not Open, whenever the pool holds a
\* backend that is healthy with a circuit that is not Open
C10_ForwardsToAvailableBackend ==
    [][ (/\ lastOp'.op = "ServeHTTP"
         /\ lastOp'.action = "AllowForward"
         /\ \E m \in Members : healthy[m] /\ circuitBreaker[m].state # CircuitOpen)
        => /\ lastOp'.backend # ""
           /\ healthy[lastOp'.backend]
           /\ circuitBreaker'[lastOp'.backend].state # CircuitOpen ]_vars

-----------------------------------------------------------------------------
(* Claims about Pool.ServeHTTPWithRetry *)

\* the maxRetries the last call worked with
EffectiveRetries == ClampRetries(retryOut.maxRetries, Len(backends))

\* C8: in a call with an effective maxRetries of at least 2, an attempt that
\* ends with a failure status (500 or more) while no earlier attempt has sent
\* anything to the client and an untried backend is left within the attempts
\* allowed is followed by an attempt on the next candidate
C8_RetryFailover ==
    (retryOut.called /\ EffectiveRetries >= 2)
    => \A i \in 1..Len(retryOut.attempts) :
          (/\ retryOut.attempts[i].statusCode >= 500
           /\ \A j \in 1..(i - 1) : ~retryOut.attempts[j].wrote
           /\ i < EffectiveRetries)
          => Len(retryOut.attempts) > i

\* C9: in one call of ServeHTTPWithRetry the client is sent at most one
\* status line, and an attempt that has written to the client is the last
\* attempt of the call
C9_CommitOnce ==
    retryOut.called
    => /\ retryOut.client.headerCalls <= 1
       /\ \A i \in 1..Len(retryOut.attempts) :
             retryOut.attempts[i].wrote => i = Len(retryOut.attempts)

\* a call allowed two attempts on a pool of two backends stopped after its
\* first attempt had sent a failure status to the client
C9_Witness ==
    /\ retryOut.called
    /\ EffectiveRetries = 2
    /\ Len(retryOut.attempts) = 1
    /\ retryOut.attempts[1].wrote
    /\ retryOut.attempts[1].statusCode >= 500
    /\ retryOut.client.headerCalls = 1
    /\ retryOut.client.status = retryOut.attempts[1].statusCode

-----------------------------------------------------------------------------
(* Claims about backend selection *)

\* C11: a NextHealthy call made while some backend of the pool is healthy
\* returns a healthy backend, never an unhealthy one
C11_NeverUnhealthyWhileHealthyExists ==
    [][ (lastOp'.op = "NextHealthy" /\ \E m \in Members : healthy[m])
        => (lastOp'.backend \in Members /\ healthy[lastOp'.backend]) ]_vars

\* NextHealthy found the backend at its cursor unhealthy in a pool of three
\* and returned a healthy one further on
C11_Witness ==
    /\ lastOp.op = "NextHealthy"
    /\ Len(backends) = 3
    /\ ~healthy[At(backends, currentIdx - 1)]
    /\ lastOp.backend # At(backends, currentIdx - 1)
    /\ healthy[lastOp.backend]

\* the n-th selection on the pool returned the backend at position n of the
\* insertion-order cycle
InCycle(i) == picks[i].backend = At(backends, i - 1)

\* C12: in a pool of n backends, any n consecutive selections (Next or
\* NextHealthy, in the order of their cursor values) made while all backends
\* are healthy return each backend exactly once, in insertion order, the
\* first selection on a fresh pool returning the first-added backend
C12_RoundRobin ==
    LET n == Len(backends) IN
    \A i \in 1..(Len(picks) - n + 1) :
       (\A j \in i..(i + n - 1) : picks[j].allHealthy)
       => /\ {picks[j].backend : j \in i..(i + n - 1)} = Members
          /\ \A j \in i..(i + n - 1) : InCycle(j)

\* four selections on an all-healthy pool of three, by both Next and
\* NextHealthy, wrapped around to the first backend
C12_Witness ==
    /\ Len(backends) = 3
    /\ Len(picks) = 4
    /\ \A j \in 1..4 : picks[j].allHealthy
    /\ \E j, k \in 1..3 : picks[j].fn = "Next" /\ picks[k].fn = "NextHealthy"
    /\ picks[4].backend = picks[1].backend

\* every backend of a non-empty pool is unhealthy
PoolUnhealthy == Members # {} /\ \A m \in Members : ~healthy[m]

\* C13 as stated: a request whose decision is AllowForward that arrives while
\* every backend of a non-empty pool is unhealthy is answered 502 by the
\* handler and handed to no upstream
C13_Original ==
    [][ (lastOp'.op = "ServeHTTP" /\ lastOp'.action = "AllowForward" /\ PoolUnhealthy)
        => (lastOp'.status = 502 /\ ~lastOp'.contacted) ]_vars

\* C13 amended: a request whose decision is AllowForward that arrives while
\* every backend of a non-empty pool is unhealthy is dispatched to the
\* backend at the cursor (degraded fallback): it is answered 503 when that
\* backend's breaker rejects it and is proxied to the upstream otherwise; the
\* handler itself answers 502 exactly when the pool is empty
C13_DegradedFallback ==
    [][ (lastOp'.op = "ServeHTTP" /\ lastOp'.action = "AllowForward")
        => /\ PoolUnhealthy
                => LET b == At(backends, currentIdx) IN
                   /\ lastOp'.backend = b
                   /\ IF Allow(circuitBreaker[b], now).ok
                      THEN lastOp'.contacted /\ proxying'[b] = proxying[b] + 1
                      ELSE lastOp'.status = 503 /\ ~lastOp'.contacted
           /\ (lastOp'.status = 502) <=> (Len(backends) = 0) ]_vars

\* a request was handed to the upstream of an unhealthy backend while both
\* backends of the pool were unhealthy
C13_Witness ==
    /\ lastOp.op = "ServeHTTP"
    /\ lastOp.action = "AllowForward"
    /\ Len(backends) = 2
    /\ PoolUnhealthy
    /\ lastOp.contacted
    /\ proxying[lastOp.backend] > 0

-----------------------------------------------------------------------------
(* Claims about the rate-limit rule *)

\* the positions in evals of the evaluations for client ip
EvalsOf(ip) == {i \in 1..Len(evals) : evals[i].ip = ip}

\* the evaluations for client ip up to and including the i-th of evals
RankOf(ip, i) == Cardinality({j \in EvalsOf(ip) : j <= i})

\* C14: of the evaluations of one client that fall inside the window opened
\* by its first evaluation (before t1 + window), exactly the first
\* maxRequests return matched = TRUE and every later one matched = FALSE
C14_FirstNMatch ==
    \A ip \in ClientIPs :
       EvalsOf(ip) # {}
       => LET first == CHOOSE i \in EvalsOf(ip) : \A j \in EvalsOf(ip) : i <= j
              t1 == evals[first].t
          IN \A i \in EvalsOf(ip) :
                evals[i].t < t1 + rule.window
                => (evals[i].matched <=> RankOf(ip, i) <= rule.maxRequests)

\* one client was evaluated four times inside its first window, at two
\* different times, under a rule that admits two
C14_Witness ==
    /\ rule.maxRequests = 2
    /\ Len(evals) = 4
    /\ \A i \in 1..4 : evals[i].ip = "10.0.0.1" /\ evals[i].t < evals[1].t + rule.window
    /\ evals[4].t > evals[1].t
    /\ evals[2].matched /\ ~evals[3].matched /\ ~evals[4].matched

\* the completed evaluations of client ip that fell in its current window
InWindow(ip) ==
    {i \in EvalsOf(ip) : evals[i].windowEnd = counters[ip].windowEnd}

\* the smaller of two numbers
Min(a, b) == IF a < b THEN a ELSE b

\* C15: whatever the interleaving of the tasks, the k evaluations completed
\* for a client inside one window leave the stored count at k and exactly
\* min(k, maxRequests) of them returned matched = TRUE
C15_AtomicCount ==
    \A ip \in ClientIPs :
       counters[ip].exists
       => LET k == Cardinality(InWindow(ip)) IN
          /\ counters[ip].count = k
          /\ Cardinality({i \in InWindow(ip) : evals[i].matched})
                = Min(k, rule.maxRequests)

\* a task has just completed the evaluation that went over the limit of a
\* client while two other tasks are inside Evaluate for the same client, one
\* holding r.mu next and one waiting for it
C15_Witness ==
    /\ rule.maxRequests = 1
    /\ lastOp.op = "RateLock"
    /\ Len(evals) = 2
    /\ evals[1].matched /\ ~evals[2].matched
    /\ counters["10.0.0.1"].count = 2
    /\ Cardinality(InWindow("10.0.0.1")) = 2
    /\ \E a, b \in RateTasks :
          /\ rateTask[a].pc = "locked" /\ rateTask[a].ip = "10.0.0.1"
          /\ rateTask[b].pc = "waiting" /\ rateTask[b].ip = "10.0.0.1"

-----------------------------------------------------------------------------
(* Claims about client IP attribution *)

\* C16: with trusted proxies configured, a request from a peer outside them
\* is attributed to the peer address whatever its X-Forwarded-For and
\* X-Real-IP headers are: two requests of such a peer get the same client IP
C16_HeadersOnlyFromTrustedPeers ==
    trustedProxies # {}
    => \A i, j \in 1..Len(attributed) :
          (/\ attributed[i].r.RemoteAddr \notin trustedProxies
           /\ attributed[j].r.RemoteAddr = attributed[i].r.RemoteAddr)
          => /\ attributed[i].clientIP = attributed[i].r.RemoteAddr
             /\ attributed[j].clientIP = attributed[i].clientIP

\* two requests of an untrusted peer, one with a forged X-Forwarded-For and
\* one with a forged X-Real-IP, were attributed while a proxy is trusted
C16_Witness ==
    /\ trustedProxies = {"192.168.1.1"}
    /\ Len(attributed) = 2
    /\ attributed[1].r.RemoteAddr = "8.8.8.8"
    /\ attributed[2].r.RemoteAddr = "8.8.8.8"
    /\ attributed[1].r.XFF = <<"10.0.0.1", "8.8.8.8">>
    /\ attributed[2].r.XFF = <<>> /\ attributed[2].r.XRealIP = "10.0.0.1"
    /\ attributed[1].clientIP = "8.8.8.8"
    /\ attributed[2].clientIP = "8.8.8.8"

-----------------------------------------------------------------------------
(* Claims about the listener and the shutdown sequence *)

\* C17: a Stop that began while requests were in flight and returned before
\* its budget ran out returned only after every one of them had completed,
\* and from the moment Stop is called no new connection is accepted
C17_GracefulDrain ==
    [][ /\ (ln'.stop.pc = "returned" /\ now' < ln'.stop.deadline)
            => (ActiveConns(ln') = {} /\ ln'.stop.err = "nil")
        /\ (ln.stop.pc # "none")
            => \A c \in ConnIds : ln.conns[c] = "none" => ln'.conns[c] = "none" ]_vars

\* Stop was called with a request in flight, waited while time passed, and
\* returned nil before its deadline once the request had completed
C17_Witness ==
    /\ ln.stop.pc = "returned"
    /\ ln.stop.err = "nil"
    /\ ln.stop.inflight > 0
    /\ now > ln.stop.deadline - ProfileStopBudget
    /\ now < ln.stop.deadline
    /\ \E c \in ConnIds : ln.conns[c] = "none"

\* C18: after a Stop whose budget ran out has returned, no connection of the
\* listener is open or being served
C18_ForceCloseOnTimeout ==
    (ln.stop.pc = "returned" /\ ln.stop.err # "nil") => OpenConns(ln) = {}

\* every health checker has been stopped
ProbersStopped == \A i \in 1..Len(CheckerIds) : ~proc.checkers[i].running

FirstInScan(b, from, set) ==
    \E i \in 0..(Len(backends) - 1) :
       /\ backends[((from + i) % Len(backends)) + 1] = b
       /\ b \in set
       /\ \A j \in 0..(i - 1) : backends[((from + j) % Len(backends)) + 1] \notin set

\* the backend attempt k of a call had to select, given the pool, the health
\* flags, the breakers and the cursor the call found
ExpectedAttempt(b, k, attempts) ==
    LET untried == {backends[i] : i \in 1..Len(backends)}
                      \ {attempts[j].backend : j \in 1..(k - 1)}
        good == {u \in untried : healthy[u] /\ Allow(circuitBreaker[u], now).ok}
        from == currentIdx + (k - 1)
    IN IF good # {} THEN FirstInScan(b, from, good) ELSE FirstInScan(b, from, untried)

\* C20: every attempt of serve_with_retry is made on the first untried backend
\* of the scan from the cursor that is healthy and circuit-allowing, or, when
\* there is none, on the first untried backend; with the pool [b1 unhealthy,
\* b2 healthy and circuit-allowing] and max_retries = 2 the first attempt is
\* on b2, and when it succeeds b2 serves the request and b1 is never contacted
C20_RetrySelection ==
    [][ lastOp'.op = "ServeHTTPWithRetry" =>
          LET attempts == retryOut'.attempts IN
          /\ \A k \in 1..Len(attempts) : ExpectedAttempt(attempts[k].backend, k, attempts)
          /\ ( /\ backends = <<"b1", "b2">>
               /\ ~healthy["b1"] /\ healthy["b2"]
               /\ Allow(circuitBreaker["b2"], now).ok
               /\ retryOut'.maxRetries = 2 )
                => /\ attempts[1].backend = "b2"
                   /\ RetrySucceeded(attempts[1].statusCode)
                         => /\ retryOut'.backend = "b2"
                            /\ Len(attempts) = 1
                            /\ circuitBreaker'["b1"] = circuitBreaker["b1"] ]_vars

\* a call with max_retries = 2 on the pool [b1 unhealthy, b2 healthy] whose
\* cursor pointed at b1 was served by b2 in a single attempt
C20_Witness ==
    /\ lastOp.op = "ServeHTTPWithRetry"
    /\ backends = <<"b1", "b2">>
    /\ ~healthy["b1"] /\ healthy["b2"]
    /\ currentIdx % 2 = 1
    /\ retryOut.maxRetries = 2
    /\ retryOut.backend = "b2"
    /\ Len(retryOut.attempts) = 1
    /\ retryOut.attempts[1].backend = "b2"
    /\ RetrySucceeded(retryOut.attempts[1].statusCode)

\* the total weight of the healthy backends under the health flags hl
TotalHealthyWeight(hl) == HealthyWeight(backends, hl, weight, Len(backends))

\* picks i..j are NextWeighted calls that all found the health flags hl
WeightedRun(i, j, hl) ==
    \A k \in i..j : picks[k].fn = "NextWeighted" /\ picks[k].hl = hl

\* C21: with health flags and weights unchanged and total healthy weight
\* T > 0, T consecutive NextWeighted calls return each healthy backend exactly
\* weight-many times, and a NextWeighted call returns no unhealthy backend
C21_WeightedShares ==
    \A i \in 1..Len(picks) :
       LET hl == picks[i].hl
           T == TotalHealthyWeight(hl)
       IN (picks[i].fn = "NextWeighted" /\ T > 0)
          => /\ hl[picks[i].backend]
             /\ (i + T - 1 <= Len(picks) /\ WeightedRun(i, i + T - 1, hl))
                   => \A b \in Members :
                         Cardinality({k \in i..(i + T - 1) : picks[k].backend = b})
                            = IF hl[b] THEN weight[b] ELSE 0

\* three consecutive NextWeighted calls on a pool with weights 2 and 1, both
\* backends healthy, that did not start at cursor 0
C21_Witness ==
    /\ backends = <<"b1", "b2">>
    /\ weight["b1"] = 2 /\ weight["b2"] = 1
    /\ Len(picks) = 4
    /\ picks[1].fn = "Next"
    /\ WeightedRun(2, 4, [b \in BackendNames |-> TRUE])
    /\ Cardinality({k \in 2..4 : picks[k].backend = "b1"}) = 2

\* the log records emitted for request i
RecordsOf(i) == {k \in 1..Len(requestLog.records) : requestLog.records[k].req = i}

IsHex(str, n) ==
    /\ Len(str) = n
    /\ \A k \in 1..n : \E d \in 1..Len(HexDigits) : SubSeq(str, k, k) = HexDigits[d]

\* C23: the X-Request-ID the response carries and the one the backend
\* receives equal the client's non-empty X-Request-ID; for a request without
\* one, a 32-hex-character ID is generated, returned and forwarded
C23_RequestIDPropagation ==
    \A i \in Handled :
       LET h == handling[i]
           id == IF h.header # "" THEN h.header ELSE h.requestID
       IN /\ h.header = "" => IsHex(h.requestID, 32)
          /\ h.responded => h.respHeader[1] = id
          /\ h.contacted => h.received = id

\* a forwarded request without X-Request-ID whose upstream put an ID of its
\* own on the response, and a forwarded request with a client-supplied ID
C23_Witness ==
    \E i, j \in Handled :
       /\ handling[i].header = "" /\ handling[i].contacted
       /\ handling[i].requestID = "254a6f94b9de03284d7297bce1062b50"
       /\ Len(handling[i].respHeader) = 2
       /\ handling[j].header = "REQ-1 " /\ handling[j].contacted /\ handling[j].responded

\* C24: Stop() on a health checker that is not running, because it was
\* stopped or never started, changes nothing, returns normally and leaves
\* the checker stopped
C24_StopIdempotent ==
    [][ (lastOp'.op = "HealthChecker.Stop" /\ ~checker.hc.running)
           => /\ checker'.hc = checker.hc
              /\ ~checker'.hc.panicked
              /\ ~checker'.hc.running
              /\ checker'.loops = checker.loops
              /\ healthy' = healthy ]_vars

\* a checker stopped before it was started, then started and stopped, has
\* been stopped once more
C24_Witness ==
    /\ lastOp.op = "HealthChecker.Stop"
    /\ lastOp.action = "noop"
    /\ checker.stoppedFresh
    /\ checker.starts = 1
    /\ checker.stops = 3
    /\ checker.hc.stopClosed
    /\ ~checker.hc.running
    /\ ~checker.hc.panicked

\* C25: once Stop() has closed the stop channel the checker issues no probe
\* and updates no backend's health
C25_StopAbortsProbes ==
    ~checker.issuedAfterStop /\ ~checker.updatedAfterStop

\* C26: Stop() on a rate-limit rule never fails, however often it is called,
\* and once Stop() has been called the cleanup goroutine eventually returns
C26_StopIdempotentSweeperExits ==
    /\ [](~sweeper.panicked)
    /\ [][sweeper.stopped => (sweeper'.stopped /\ sweeper'.stopClosed)]_vars
    /\ sweeper.stopped ~> (sweeper.pc = "exited")

\* Stop() has been called twice, and the cleanup goroutine, which swept once
\* more after the first Stop(), has returned
C26_Witness ==
    /\ sweeper.stops = 2
    /\ sweeper.pc = "exited"
    /\ sweeper.sweptAfterStop
    /\ ~sweeper.panicked
    /\ now > 0
    /\ \E ip \in ClientIPs : counters[ip].count = 2

\* C27: the action of the decision Engine.Evaluate returns is AllowForward or
\* DenyDecoy, whatever the request and the rule groups
C27_EngineActions ==
    evalOut.called => evalOut.d.Action \in {"AllowForward", "DenyDecoy"}

\* Evaluate has answered a request that a configured allow group did not
\* match and no deny rule matched, which is where a third action could come in
C27_Witness ==
    /\ evalOut.called
    /\ evalOut.d.Action = "DenyDecoy"
    /\ evalOut.d.Labels = <<"default-deny">>
    /\ evalOut.denyEvaluated /\ ~evalOut.denyRes.Matched
    /\ evalOut.allowEvaluated /\ ~evalOut.allowRes.Matched

\* C28: while the breaker is HalfOpen and no outcome has been recorded since
\* the Allow() that moved it there, a further Allow() is rejected
C28_HalfOpenSingleTrial ==
    [][ (lastOp'.op = "Allow" /\ breaker.state = CircuitHalfOpen /\ succRun = 0)
           => ~allowOut' ]_vars

\* the attempts of the last ServeHTTPWithRetry call that wrote to the client
WritingAttempts ==
    {k \in 1..Len(retryOut.attempts) : retryOut.attempts[k].wrote}

C30_DegradedFallbackAtCursor ==
    [][ lastOp'.op = "NextHealthy" =>
          /\ lastOp'.backend = "" <=> Len(backends) = 0
          /\ (Len(backends) > 0 /\ \A b \in Members : ~healthy[b])
                => lastOp'.backend = backends[(currentIdx % Len(backends)) + 1] ]_vars

\* NextHealthy on a pool of three backends, none healthy, with the cursor on
\* the second backend, returned the second backend
C30_Witness ==
    /\ lastOp.op = "NextHealthy"
    /\ backends = <<"b1", "b2", "b3">>
    /\ \A b \in Members : ~healthy[b]
    /\ currentIdx = 2
    /\ lastOp.backend = "b2"

\* C31 as stated: an evaluation that finds the client's counter absent or
\* expired, where expired means that the clock it read is at or past
\* windowEnd, installs the counter {count 1, windowEnd t + window} and returns
\* matched = TRUE with the label rate-ok
C31_Original ==
    [][ \A k \in RateTasks :
          (/\ rateTask[k].pc = "locked"
           /\ rateTask'[k].pc = "idle"
           /\ \/ ~rateTask[k].counter.exists
              \/ rateTask[k].t >= rateTask[k].counter.windowEnd)
          => /\ counters'[rateTask[k].ip] =
                    [exists |-> TRUE, count |-> 1,
                     windowEnd |-> rateTask[k].t + rule.window]
             /\ evals'[Len(evals')].matched
             /\ evals'[Len(evals')].labels = <<"rate-ok">> ]_vars

\* C31: an evaluation that finds the client's counter absent or expired, where
\* expired means that the clock it read is past windowEnd, installs the
\* counter {count 1, windowEnd t + window} and returns matched = TRUE with the
\* label rate-ok; an evaluation at exactly windowEnd belongs to the running
\* window: it increments the count, keeps windowEnd and returns matched = TRUE
\* exactly when the new count is within maxRequests
C31_FreshWindowAfterExpiry ==
    [][ \A k \in RateTasks :
          (rateTask[k].pc = "locked" /\ rateTask'[k].pc = "idle")
          => LET c == rateTask[k].counter
                 t == rateTask[k].t
                 e == evals'[Len(evals')]
             IN /\ (~c.exists \/ t > c.windowEnd)
                     => /\ counters'[rateTask[k].ip] =
                              [exists |-> TRUE, count |-> 1, windowEnd |-> t + rule.window]
                        /\ e.matched
                        /\ e.labels = <<"rate-ok">>
                /\ (c.exists /\ t = c.windowEnd)
                     => /\ counters'[rateTask[k].ip] =
                              [exists |-> TRUE, count |-> c.count + 1,
                               windowEnd |-> c.windowEnd]
                        /\ e.matched <=> c.count + 1 <= rule.maxRequests
                        /\ e.labels = IF e.matched THEN <<"rate-ok">>
                                                   ELSE <<"rate-exceeded">> ]_vars

\* one client was evaluated when it had no counter, again at exactly the end of
\* the window that opened, where it was counted in that window, and again past
\* the end, where a fresh window opened
C31_Witness ==
    /\ Len(evals) = 3
    /\ \A i \in 1..3 : evals[i].ip = "10.0.0.1"
    /\ evals[1].count = 1 /\ evals[1].matched
    /\ evals[2].t = evals[1].windowEnd
    /\ evals[2].count = 2 /\ evals[2].windowEnd = evals[1].windowEnd
    /\ evals[3].t > evals[2].windowEnd
    /\ evals[3].count = 1 /\ evals[3].matched
    /\ evals[3].windowEnd = evals[3].t + rule.window

\* C32: once SIGINT or SIGTERM has been received the listener accepts no new
\* connection, the time in which the health checkers and the admin API are
\* being stopped included
C32_NoAcceptAfterSignal ==
    [][ proc.pc # "running" => lastOp'.op # "Accept" ]_vars

\* C33: with no allow group configured and the deny group absent or not
\* matching, Engine.Evaluate returns AllowForward; with neither group
\* configured the decision is {AllowForward, "no rules configured", ["no-rules"]}
C33_PermissiveWithoutAllowGroup ==
    (evalOut.called /\ allowRules.isNil)
    => /\ (denyRules.isNil \/ ~evalOut.denyRes.Matched)
             => evalOut.d.Action = "AllowForward"
       /\ denyRules.isNil
             => evalOut.d = Decision("AllowForward", Reason("no rules configured"),
                                     <<"no-rules">>)

\* Evaluate has answered a request under a configuration with a deny group
\* only, which it evaluated and which did not match
C33_Witness ==
    /\ evalOut.called
    /\ allowRules.isNil
    /\ ~denyRules.isNil
    /\ evalOut.denyEvaluated /\ ~evalOut.denyRes.Matched
    /\ ~evalOut.allowEvaluated
    /\ evalOut.d.Action = "AllowForward"

\* C34: an Open breaker changes state only by an Allow() made at least
\* Timeout after lastStateChange, which makes it HalfOpen, or by Reset(); a
\* RecordSuccess or RecordFailure on an Open breaker leaves it Open and leaves
\* lastStateChange, hence the instant from which Allow() admits, as it was
C34_OpenLeftOnlyByAllowOrReset ==
    [][ breaker.state = CircuitOpen =>
          /\ breaker'.state # CircuitOpen
                => \/ /\ lastOp'.op = "Allow"
                      /\ now - breaker.lastStateChange >= breaker.config.Timeout
                      /\ breaker'.state = CircuitHalfOpen
                   \/ /\ lastOp'.op = "Reset"
                      /\ breaker'.state = CircuitClosed
          /\ lastOp'.op \in {"RecordSuccess", "RecordFailure"}
                => /\ breaker'.state = CircuitOpen
                   /\ breaker'.lastStateChange = breaker.lastStateChange ]_vars

\* a failure was recorded on a breaker that had been Open for some time: the
\* count of failures is past the threshold that opened it
C34_Witness ==
    /\ lastOp.op = "RecordFailure"
    /\ breaker.state = CircuitOpen
    /\ breaker.failures > breaker.config.FailureThreshold
    /\ now > breaker.lastStateChange

\* the selections i..j of picks that returned backend b
PicksOf(b, i, j) == Cardinality({k \in i..j : picks[k].backend = b})

\* C35: with the health flags fixed, some backend unhealthy and at least two
\* healthy, in every run of consecutive NextHealthy calls the numbers of times
\* two healthy backends are returned differ by at most one
C35_StrictRoundRobinAmongHealthy ==
    LET up == {b \in Members : healthy[b]} IN
    (up # Members /\ Cardinality(up) >= 2)
    => \A i \in 1..Len(picks), j \in 1..Len(picks) :
          (i <= j /\ \A k \in i..j : picks[k].fn = "NextHealthy")
          => \A a \in up, b \in up :
                PicksOf(a, i, j) - PicksOf(b, i, j) <= 1

\* C36: no Start() or Stop() of any sequence of calls on a health checker
\* fails: the stop channel is never closed twice
C36_StartStopNeverFails == ~checker.hc.panicked

\* C37: in every state of a breaker with both thresholds at least 1, a Closed
\* breaker has failures < FailureThreshold, and successes is non-zero only in
\* HalfOpen, where it is < SuccessThreshold
C37_CountersConsistentWithState ==
    (breaker.config.FailureThreshold >= 1 /\ breaker.config.SuccessThreshold >= 1)
    => /\ breaker.state = CircuitClosed
             => breaker.failures < breaker.config.FailureThreshold
       /\ breaker.successes # 0
             => /\ breaker.state = CircuitHalfOpen
                /\ breaker.successes < breaker.config.SuccessThreshold

\* a HalfOpen breaker with SuccessThreshold 3 has recorded its second success,
\* after failures had opened it
C37_Witness ==
    /\ lastOp.op = "RecordSuccess"
    /\ breaker.state = CircuitHalfOpen
    /\ breaker.config.SuccessThreshold = 3
    /\ breaker.successes = 2
    /\ breaker.failures = 0

\* C38: a request the deny group matches is not put to the allow group, and
\* the counters of a rate-limit rule in the allow group are, for every
\* client, what they were before the request
C38_DeniedRequestLeavesAllowCounters ==
    [][ (lastOp'.op = "Evaluate" /\ evalOut'.denyEvaluated /\ evalOut'.denyRes.Matched)
           => /\ ~evalOut'.allowEvaluated
              /\ HasRateLimit(allowRules) => counters' = counters ]_vars

\* under a rate-limit rule in the allow group, a client that had been counted
\* once sent a request the deny group matched, and its count is still one
C38_Witness ==
    /\ lastOp.op = "Evaluate"
    /\ HasRateLimit(allowRules)
    /\ evalOut.called
    /\ evalOut.ctx = [ClientIP |-> "8.8.8.8", Method |-> "POST"]
    /\ evalOut.denyEvaluated /\ evalOut.denyRes.Matched
    /\ ~evalOut.allowEvaluated
    /\ evalOut.d.Action = "DenyDecoy"
    /\ counters["8.8.8.8"].exists
    /\ counters["8.8.8.8"].count = 1

\* the counter client ip would have after the first i evaluations of evals if
\* no sweep had ever run
RECURSIVE UnsweptCounter(_, _)
UnsweptCounter(ip, i) ==
    IF i = 0 THEN NoCounter
    ELSE IF evals[i].ip # ip THEN UnsweptCounter(ip, i - 1)
    ELSE RateLimitEvaluate(rule, [ClientIP |-> ip, Method |-> "GET"],
                           [EmptyCounters EXCEPT ![ip] = UnsweptCounter(ip, i - 1)],
                           evals[i].t).cs[ip]

\* the result the i-th evaluation of evals would have returned if no sweep had
\* ever run
UnsweptResult(i) ==
    RateLimitEvaluate(rule, [ClientIP |-> evals[i].ip, Method |-> "GET"],
                      [EmptyCounters EXCEPT ![evals[i].ip] =
                          UnsweptCounter(evals[i].ip, i - 1)],
                      evals[i].t).res

\* C39: whatever sweeps ran between the evaluations, every evaluation returned
\* the matched result and the label it would have returned had the sweeper
\* never run
C39_SweeperTransparent ==
    \A i \in 1..Len(evals) :
       /\ evals[i].matched = UnsweptResult(i).Matched
       /\ evals[i].labels = UnsweptResult(i).Labels

\* a client was evaluated, the sweeper deleted its expired counter, and the
\* client was evaluated again: it found no counter where, without the sweep, it
\* would have found the expired one
C39_Witness ==
    \E i \in 1..Len(evals), j \in 1..Len(evals) :
       /\ i < j
       /\ evals[i].ip = evals[j].ip
       /\ ~evals[j].found
       /\ UnsweptCounter(evals[j].ip, j - 1).exists
       /\ evals[j].t > evals[i].windowEnd
       /\ evals[j].matched
       /\ evals[j].count = 1

\* the timeout of the breaker ends within the time the clock is followed
TimeoutInHorizon == breaker.lastStateChange + breaker.config.Timeout <= MaxTime

\* C40: if from some point on no failure is recorded, while time advances,
\* Allow() is asked and successes are recorded, then from some point on the
\* breaker is Closed for good, unless it is Open with a timeout that ends after
\* the clock stops being followed
C40_EventuallyClosed ==
    (<>[][lastOp'.op # "RecordFailure"]_vars)
    => <>[](\/ breaker.state = CircuitClosed
            \/ breaker.state = CircuitOpen /\ ~TimeoutInHorizon)

\* a breaker that failures had opened was made HalfOpen by an Allow() after
\* the timeout and has just been closed by the success that reached
\* SuccessThreshold
C40_Witness ==
    /\ lastOp.op = "RecordSuccess"
    /\ breaker.state = CircuitClosed
    /\ breaker.config.SuccessThreshold = 2
    /\ succRun = 2
    /\ breaker.lastStateChange = now
    /\ now >= breaker.config.Timeout

====
